---- MODULE Spec2Model ----
(***************************************************************************)
(* physicslfo~ : a physics-based LFO (Max/MSP external).                   *)
(*                                                                         *)
(* The object's struct t_physicslfo is the record x.  The perform routine  *)
(* copies x->phase into a local at the start of a signal block, runs its   *)
(* while loop once per sample and stores the local back at the end, so it  *)
(* is modelled by three actions (PerformBegin, PerformSample, PerformEnd)  *)
(* with the local in lphase and the routine's position in pc.              *)
(*                                                                         *)
(* Numbers.  A C double d is the integer d * Unit (four decimal digits),   *)
(* products and quotients truncate toward zero.  exp, log, pow and sin are *)
(* computed by range reduction and power series on these integers.  All    *)
(* intermediate products stay below 2^31.                                  *)
(***************************************************************************)
EXTENDS Integers, Sequences, FiniteSets, TLC

\* ------------------------------------------------------------------------
\* Fixed-point arithmetic standing for the C double type
\* ------------------------------------------------------------------------

\* The double 1.0.
Unit == 10000

\* The double a/b, for decimal literals of the source (0.8 is Dec(8, 10)).
Dec(a, b) == (a * Unit) \div b

Abs(a) == IF a < 0 THEN -a ELSE a

Sgn(a) == IF a < 0 THEN -1 ELSE 1

\* a * b on doubles.
Mul(a, b) ==
    LET x  == Abs(a)
        y  == Abs(b)
        xh == x \div Unit
        xl == x % Unit
        yh == y \div Unit
        yl == y % Unit
    IN  (Sgn(a) * Sgn(b)) * (xh * yh * Unit + xh * yl + xl * yh + (xl * yl) \div Unit)

\* a / b on doubles, b # 0.
Div(a, b) == (Sgn(a) * Sgn(b)) * ((Abs(a) * Unit) \div Abs(b))

\* (long)d : conversion of a double to an integer truncates toward zero.
ToLong(d) == Sgn(d) * (Abs(d) \div Unit)

\* (double)n
ToDouble(n) == n * Unit

\* The macro CLAMP(a, lo, hi) of the Max SDK.
CLAMP(a, lo, hi) == IF a > lo THEN (IF a < hi THEN a ELSE hi) ELSE lo

\* fmax, fmod(a, 1.0) for a >= 0.
fmax(a, b) == IF a > b THEN a ELSE b

Frac(a) == Sgn(a) * (Abs(a) % Unit)

\* Sum of the power series  sum_{i>=k} c_i , where term is c_k and each next
\* term is  term * step / (i + 1), i advancing by 1: the exponential series.
RECURSIVE ExpSeries(_, _, _, _)
ExpSeries(term, step, i, acc) ==
    IF term = 0 \/ i > 12 THEN acc
    ELSE ExpSeries(Mul(term, step) \div i, step, i + 1, acc + term)

\* e^k for whole k >= 0, and e^-k.
RECURSIVE ExpWhole(_)
ExpWhole(k) == IF k = 0 THEN Unit ELSE Mul(ExpWhole(k - 1), 27183)

RECURSIVE ExpWholeNeg(_)
ExpWholeNeg(k) ==
    IF k = 0 THEN Unit
    ELSE IF k > 10 THEN 0
    ELSE (ExpWholeNeg(k - 1) * 3679 + 5000) \div Unit

\* exp(d)
exp(d) ==
    IF d >= 0
    THEN Mul(ExpWhole(d \div Unit), ExpSeries(Unit, d % Unit, 1, 0))
    ELSE LET n == -d
             f == n % Unit
             k == n \div Unit
             \* e^-f = e^(1-f) / e for the fractional part f in (0,1)
             ef == IF f = 0 THEN Unit
                   ELSE Mul(ExpSeries(Unit, Unit - f, 1, 0), 3679)
         IN  Mul(ExpWholeNeg(k), ef)

\* log(d) for d > 0:  d = m * 2^j with m in [1,2),
\* log m = 2 (z + z^3/3 + z^5/5 + ...),  z = (m-1)/(m+1).
RECURSIVE LogSeries(_, _, _, _)
LogSeries(zpow, zsq, i, acc) ==
    IF zpow = 0 \/ i > 15 THEN acc
    ELSE LogSeries(Mul(zpow, zsq), zsq, i + 2, acc + zpow \div i)

RECURSIVE log(_)
log(d) ==
    IF d >= 2 * Unit THEN log(d \div 2) + 6931
    ELSE IF d < Unit THEN log(d * 2) - 6931
    ELSE LET z == Div(d - Unit, d + Unit)
         IN  2 * LogSeries(z, Mul(z, z), 1, 0)

\* pow(b, e) for b >= 0.
pow(b, e) ==
    IF e = 0 \/ b = Unit THEN Unit
    ELSE IF b = 0 THEN 0
    ELSE exp(Mul(e, log(b)))

\* sin(2.0 * PI * u): the argument is kept in turns, u = 1.0 being a full
\* turn, so that the reduction to the first quadrant is exact.
RECURSIVE SinSeries(_, _, _, _)
SinSeries(term, asq, i, acc) ==
    IF term = 0 \/ i > 13 THEN acc
    ELSE SinSeries(-(Mul(term, asq) \div ((i + 1) * (i + 2))), asq, i + 2, acc + term)

SinTurns(u) ==
    LET r == u % Unit
        q == r \div (Unit \div 4)
        f == r % (Unit \div 4)
        g == IF q % 2 = 0 THEN f ELSE (Unit \div 4) - f
        a == Mul(62832, g)
        s == CLAMP(SinSeries(a, Mul(a, a), 1, 0), 0, Unit)
    IN  IF q < 2 THEN s ELSE -s

\* ------------------------------------------------------------------------
\* State
\* ------------------------------------------------------------------------

VARIABLES
    x,        \* the t_physicslfo instance (its fields, by their C names)
    pc,       \* "idle", or "run" while physicslfo_perform64 is inside a block
    lphase,   \* the local variable phase of physicslfo_perform64
    last      \* the operation that made the latest step, with its argument

vars == <<x, pc, lphase, last>>

\* x->sr_inv is 1.0 / x->sr wherever x->sr is assigned, so only sr is kept
\* (in Hz, a whole number); freq * sr_inv is the quotient freq / sr.
PhaseInc(freq, sr) == freq \div sr

\* ------------------------------------------------------------------------
\* Helper functions
\* ------------------------------------------------------------------------

\* A reset that leaves bounce_count as it is.
reset_physics_state_KeepsBounceCount(o) ==
    [o EXCEPT !.velocity = 0,
              !.acceleration = 0,
              !.energy = Unit,
              !.spin_phase = 0]

reset_physics_state(o) ==
    [o EXCEPT !.velocity = 0,
              !.acceleration = 0,
              !.energy = Unit,
              !.bounce_count = 0,
              !.spin_phase = 0]

\* ------------------------------------------------------------------------
\* Physics simulation functions: each returns the sample (out) and the
\* instance as the function leaves it (x).
\* ------------------------------------------------------------------------

\* A bounce whose ground contact adds energy instead of removing it.
simulate_bounce_Gain(o, t, param, damping) ==
    LET curve_power   == Dec(5, 10) + Mul(param, 3 * Unit)
        decay_factor  == Unit - Mul(Mul(damping, t), Dec(15, 10))
        bounce_height == Mul(o.energy, fmax(Dec(1, 10), decay_factor))
        height        == Mul(bounce_height, Unit - pow(t, curve_power))
    IN  IF height <= 0
        THEN [out |-> 0,
              x   |-> [o EXCEPT !.energy = Mul(o.energy, Unit + Mul(damping, Dec(8, 10))),
                                !.bounce_count = o.bounce_count + Unit]]
        ELSE [out |-> CLAMP(height, 0, Unit), x |-> o]

\* A bounce whose continuous decay is not floored at 10%.
simulate_bounce_NoFloor(o, t, param, damping) ==
    LET curve_power   == Dec(5, 10) + Mul(param, 3 * Unit)
        decay_factor  == Unit - Mul(Mul(damping, t), Dec(15, 10))
        bounce_height == Mul(o.energy, decay_factor)
        height        == Mul(bounce_height, Unit - pow(t, curve_power))
    IN  IF height <= 0
        THEN [out |-> CLAMP(0, 0, Unit),
              x   |-> [o EXCEPT !.energy = Mul(o.energy, Unit - Mul(damping, Dec(8, 10))),
                                !.bounce_count = o.bounce_count + Unit]]
        ELSE [out |-> CLAMP(height, 0, Unit), x |-> o]

\* A bounce that takes only a height below 0.0 for a ground contact.
simulate_bounce_StrictContact(o, t, param, damping) ==
    LET curve_power   == Dec(5, 10) + Mul(param, 3 * Unit)
        decay_factor  == Unit - Mul(Mul(damping, t), Dec(15, 10))
        bounce_height == Mul(o.energy, fmax(Dec(1, 10), decay_factor))
        height        == Mul(bounce_height, Unit - pow(t, curve_power))
    IN  IF height < 0
        THEN [out |-> CLAMP(0, 0, Unit),
              x   |-> [o EXCEPT !.energy = Mul(o.energy, Unit - Mul(damping, Dec(8, 10))),
                                !.bounce_count = o.bounce_count + Unit]]
        ELSE [out |-> CLAMP(height, 0, Unit), x |-> o]

simulate_bounce(o, t, param, damping) ==
    LET curve_power   == Dec(5, 10) + Mul(param, 3 * Unit)
        decay_factor  == Unit - Mul(Mul(damping, t), Dec(15, 10))
        bounce_height == Mul(o.energy, fmax(Dec(1, 10), decay_factor))
        height        == Mul(bounce_height, Unit - pow(t, curve_power))
    IN  IF height <= 0
        THEN [out |-> CLAMP(0, 0, Unit),
              x   |-> [o EXCEPT !.energy = Mul(o.energy, Unit - Mul(damping, Dec(8, 10))),
                                !.bounce_count = o.bounce_count + Unit]]
        ELSE [out |-> CLAMP(height, 0, Unit), x |-> o]

simulate_elastic(o, t, tension, damping) ==
    LET osc_frequency  == 3 * Unit + Mul(tension, 12 * Unit)
        decay_rate     == Unit + Mul(damping, 4 * Unit)
        decay_envelope == exp(Mul(-decay_rate, t))
        freq_drift     == fmax(Dec(8, 10), Unit - Mul(Mul(t, Dec(1, 10)), tension))
        oscillation    == SinTurns(Mul(Mul(osc_frequency, freq_drift), t))
        result         == Mul(decay_envelope, oscillation)
    IN  [out |-> Mul(Mul(result + Unit, Dec(5, 10)), decay_envelope), x |-> o]

simulate_bounce_spin(o, t, param, damping) ==
    LET curve_power         == Dec(3, 10) + Mul(param, Dec(25, 10))
        decay_factor        == Unit - Mul(Mul(damping, t), Unit)
        bounce_height       == Mul(o.energy, fmax(Dec(15, 100), decay_factor))
        base_bounce         == Mul(bounce_height, Unit - pow(t, curve_power))
        primary_spin_freq   == 3 * Unit + Mul(param, 12 * Unit)
        secondary_spin_freq == Dec(15, 10) + Mul(param, 6 * Unit)
        primary_spin        == SinTurns(Mul(primary_spin_freq, t))
        \* sin(2 PI f t + PI/3): PI/3 is a sixth of a turn
        secondary_spin      == SinTurns(Mul(secondary_spin_freq, t) + Dec(1, 6))
        complex_spin        == Mul(primary_spin, Dec(7, 10)) + Mul(secondary_spin, Dec(3, 10))
        spin_base_influence == Dec(3, 10) + Mul(param, Dec(4, 10))
        energy_boost        == Unit + Mul(o.energy, Dec(5, 10))
        spin_influence      == Mul(Mul(spin_base_influence, base_bounce), energy_boost)
        wobble_freq         == Dec(5, 10) + Mul(param, Dec(15, 10))
        wobble              == Mul(Mul(SinTurns(Mul(wobble_freq, t)), Dec(15, 100)), param)
        final_height        == base_bounce + Mul(complex_spin, spin_influence)
                                 + Mul(wobble, base_bounce)
    IN  IF final_height <= 0
        THEN [out |-> fmax(0, 0),
              x   |-> [o EXCEPT !.energy = Mul(o.energy, Unit - Mul(damping, Dec(5, 10))),
                                !.bounce_count = o.bounce_count + Unit]]
        ELSE [out |-> fmax(0, final_height), x |-> o]

simulate_elastic_overshoot(o, t, tension, damping) ==
    LET freq             == Unit + Mul(tension, 4 * Unit)
        overshoot_amount == Dec(3, 10) + Mul(tension, Dec(4, 10))
        equilibrium      == Dec(6, 10)
        approach_rate    == 2 * Unit + Mul(damping, 3 * Unit)
        base_approach    == Mul(equilibrium, Unit - exp(Mul(-approach_rate, t)))
        overshoot_decay  == exp(Mul(Mul(-damping, t), Dec(25, 10)))
        overshoot_osc    == IF overshoot_decay < Dec(1, 100) THEN 0
                            ELSE Mul(Mul(SinTurns(Mul(freq, t)), overshoot_amount),
                                     overshoot_decay)
    IN  [out |-> base_approach + overshoot_osc, x |-> o]

\* A multi-bounce without the complete stop below the threshold.
simulate_multibounce_NoStop(o, t, param, damping) ==
    LET bounces_per_cycle      == 2 * Unit + Mul(param, 6 * Unit)
        segment_phase          == Frac(Mul(t, bounces_per_cycle))
        current_bounce         == ToLong(Mul(t, bounces_per_cycle))
        height                 == Mul(Mul(4 * Unit, segment_phase), Unit - segment_phase)
        energy_loss_per_bounce == Dec(5, 10) + Mul(damping, Dec(4, 10))
        bounce_amplitude       == pow(energy_loss_per_bounce, ToDouble(current_bounce))
    IN  [out |-> Mul(height, bounce_amplitude), x |-> o]

\* A multi-bounce that records the bounce it is in in bounce_count.
simulate_multibounce_CountsBounces(o, t, param, damping) ==
    LET bounces_per_cycle      == 2 * Unit + Mul(param, 6 * Unit)
        segment_phase          == Frac(Mul(t, bounces_per_cycle))
        current_bounce         == ToLong(Mul(t, bounces_per_cycle))
        height                 == Mul(Mul(4 * Unit, segment_phase), Unit - segment_phase)
        energy_loss_per_bounce == Dec(5, 10) + Mul(damping, Dec(4, 10))
        bounce_amplitude       == pow(energy_loss_per_bounce, ToDouble(current_bounce))
        stop_threshold         == Dec(2, 100)
        counted                == [o EXCEPT !.bounce_count = ToDouble(current_bounce)]
    IN  IF bounce_amplitude < stop_threshold
        THEN [out |-> 0, x |-> counted]
        ELSE [out |-> Mul(height, bounce_amplitude), x |-> counted]

simulate_multibounce(o, t, param, damping) ==
    LET bounces_per_cycle      == 2 * Unit + Mul(param, 6 * Unit)
        segment_phase          == Frac(Mul(t, bounces_per_cycle))
        current_bounce         == ToLong(Mul(t, bounces_per_cycle))
        height                 == Mul(Mul(4 * Unit, segment_phase), Unit - segment_phase)
        energy_loss_per_bounce == Dec(5, 10) + Mul(damping, Dec(4, 10))
        bounce_amplitude       == pow(energy_loss_per_bounce, ToDouble(current_bounce))
        stop_threshold         == Dec(2, 100)
    IN  IF bounce_amplitude < stop_threshold
        THEN [out |-> 0, x |-> o]
        ELSE [out |-> Mul(height, bounce_amplitude), x |-> o]

\* A wobble whose beat is never cut off.
simulate_wobble_NoCutoff(o, t, tension, damping) ==
    LET base_freq        == Dec(15, 10) + Mul(tension, Dec(25, 10))
        freq_spread      == Mul(tension, Dec(8, 10))
        freq1            == base_freq
        freq2            == base_freq + freq_spread
        equilibrium      == Dec(5, 10)
        approach_rate    == Dec(15, 10) + Mul(damping, 2 * Unit)
        base_level       == Mul(equilibrium, Unit - exp(Mul(-approach_rate, t)))
        wobble_decay     == exp(Mul(Mul(-damping, t), Dec(12, 10)))
        osc1             == SinTurns(Mul(freq1, t))
        osc2             == SinTurns(Mul(freq2, t))
        beating          == Div(osc1 + Mul(osc2, Dec(8, 10)), Dec(18, 10))
        wobble_amplitude == Mul(Dec(3, 10), wobble_decay)
    IN  [out |-> base_level + Mul(beating, wobble_amplitude), x |-> o]

simulate_wobble(o, t, tension, damping) ==
    LET base_freq        == Dec(15, 10) + Mul(tension, Dec(25, 10))
        freq_spread      == Mul(tension, Dec(8, 10))
        freq1            == base_freq
        freq2            == base_freq + freq_spread
        equilibrium      == Dec(5, 10)
        approach_rate    == Dec(15, 10) + Mul(damping, 2 * Unit)
        base_level       == Mul(equilibrium, Unit - exp(Mul(-approach_rate, t)))
        wobble_decay     == exp(Mul(Mul(-damping, t), Dec(12, 10)))
        osc1             == SinTurns(Mul(freq1, t))
        osc2             == SinTurns(Mul(freq2, t))
        beating          == Div(osc1 + Mul(osc2, Dec(8, 10)), Dec(18, 10))
        wobble_amplitude == IF wobble_decay < Dec(1, 100) THEN 0
                            ELSE Mul(Dec(3, 10), wobble_decay)
    IN  [out |-> base_level + Mul(beating, wobble_amplitude), x |-> o]

\* The switch (type) of physicslfo_perform64.
Simulate(type, o, t, param, damping) ==
    CASE type = 0 -> simulate_bounce(o, t, param, damping)
      [] type = 1 -> simulate_elastic(o, t, param, damping)
      [] type = 2 -> simulate_bounce_spin(o, t, param, damping)
      [] type = 3 -> simulate_elastic_overshoot(o, t, param, damping)
      [] type = 4 -> simulate_multibounce(o, t, param, damping)
      [] type = 5 -> simulate_wobble(o, t, param, damping)
      [] OTHER    -> [out |-> 0, x |-> o]

\* ------------------------------------------------------------------------
\* Bounds of the model and the inputs it draws
\* ------------------------------------------------------------------------

\* Samples are modelled while the phase stays at or below MaxPhaseSteps
\* steps of PhaseStep, and within MaxCreep resolution units of a whole step.
MaxPhaseSteps == 16

MaxCreep == 1

\* Samples are modelled while bounce_count stays at or below MaxContacts.
MaxContacts == 3

PhaseStep == Unit \div 8

\* sys_getsr() and the samplerate argument of dsp64.
SampleRates == {8000}

\* count[] of dsp64: which of the four inlets have a signal connected.
SignalCounts == {<<0, 0, 0, 0>>, <<1, 1, 1, 1>>}

\* An atom of the creation arguments.
AtomLong(n) == [a_type |-> "A_LONG", w |-> n]

AtomFloat(d) == [a_type |-> "A_FLOAT", w |-> d]

CreationArgs == {<<>>}

\* Values carried by the signal inlets.
FreqSignal == {-500 * Unit, 2000 * Unit}

TypeSignal == {Dec(27, 10)}

PhysicsSignal == {Dec(3, 2)}

DampingSignal == {-Unit}

\* Arguments of the float, int and phase messages.
FloatArgs(inlet) ==
    CASE inlet = 0 -> {2000 * Unit}
      [] inlet = 1 -> {}
      [] inlet = 2 -> {}
      [] inlet = 3 -> {}

IntArgs(inlet) ==
    CASE inlet = 0 -> {}
      [] inlet = 1 -> {7}
      [] inlet = 2 -> {}
      [] inlet = 3 -> {}

PhaseArgs == {-Dec(1, 2), Dec(1, 2), Dec(3, 2)}

\* ------------------------------------------------------------------------
\* Construction
\* ------------------------------------------------------------------------

atom_getlong(a) == IF a.a_type = "A_LONG" THEN a.w ELSE ToLong(a.w)

atom_getfloat(a) == IF a.a_type = "A_LONG" THEN ToDouble(a.w) ELSE a.w

\* A constructor that stores the damping argument without clamping it.
physicslfo_new_UnclampedDamping(sr, argv) ==
    LET o0 == [phase |-> 0, sr |-> sr,
               freq_float |-> Unit, type_float |-> 0,
               physics_float |-> Dec(5, 10), damping_float |-> Dec(1, 10),
               freq_has_signal |-> 0, type_has_signal |-> 0,
               physics_has_signal |-> 0, damping_has_signal |-> 0,
               velocity |-> 0, acceleration |-> 0, energy |-> Unit,
               bounce_count |-> 0, last_value |-> 0, spin_phase |-> 0,
               looping_mode |-> 1, envelope_active |-> 0]
        o1 == IF Len(argv) >= 1 /\ argv[1].a_type = "A_LONG"
              THEN [o0 EXCEPT !.type_float = ToDouble(CLAMP(atom_getlong(argv[1]), 0, 5))]
              ELSE o0
        o2 == IF Len(argv) >= 2 /\ argv[2].a_type \in {"A_FLOAT", "A_LONG"}
              THEN [o1 EXCEPT !.physics_float = CLAMP(atom_getfloat(argv[2]), 0, Unit)]
              ELSE o1
        o3 == IF Len(argv) >= 3 /\ argv[3].a_type \in {"A_FLOAT", "A_LONG"}
              THEN [o2 EXCEPT !.damping_float = atom_getfloat(argv[3])]
              ELSE o2
    IN  o3

physicslfo_new(sr, argv) ==
    LET o0 == [phase |-> 0, sr |-> sr,
               freq_float |-> Unit, type_float |-> 0,
               physics_float |-> Dec(5, 10), damping_float |-> Dec(1, 10),
               freq_has_signal |-> 0, type_has_signal |-> 0,
               physics_has_signal |-> 0, damping_has_signal |-> 0,
               velocity |-> 0, acceleration |-> 0, energy |-> Unit,
               bounce_count |-> 0, last_value |-> 0, spin_phase |-> 0,
               looping_mode |-> 1, envelope_active |-> 0]
        o1 == IF Len(argv) >= 1 /\ argv[1].a_type = "A_LONG"
              THEN [o0 EXCEPT !.type_float = ToDouble(CLAMP(atom_getlong(argv[1]), 0, 5))]
              ELSE o0
        o2 == IF Len(argv) >= 2 /\ argv[2].a_type \in {"A_FLOAT", "A_LONG"}
              THEN [o1 EXCEPT !.physics_float = CLAMP(atom_getfloat(argv[2]), 0, Unit)]
              ELSE o1
        o3 == IF Len(argv) >= 3 /\ argv[3].a_type \in {"A_FLOAT", "A_LONG"}
              THEN [o2 EXCEPT !.damping_float = CLAMP(atom_getfloat(argv[3]), 0, Unit)]
              ELSE o2
    IN  o3

Init ==
    /\ \E sr \in SampleRates, argv \in CreationArgs : x = physicslfo_new(sr, argv)
    /\ pc = "idle"
    /\ lphase = 0
    /\ last = <<"new">>

\* ------------------------------------------------------------------------
\* DSP
\* ------------------------------------------------------------------------

physicslfo_dsp64(o, count, samplerate) ==
    [o EXCEPT !.sr = samplerate,
              !.freq_has_signal = count[1],
              !.type_has_signal = count[2],
              !.physics_has_signal = count[3],
              !.damping_has_signal = count[4]]

Dsp64(count, samplerate) ==
    /\ pc = "idle"
    /\ x' = physicslfo_dsp64(x, count, samplerate)
    /\ last' = <<"dsp64">>
    /\ UNCHANGED <<pc, lphase>>

\* A wrap that subtracts 1.0 until the phase is below 1.0.
LoopingAdvance_WrapsFully(o, phase, inc) ==
    LET p1 == phase + inc
        p2 == IF p1 >= Unit THEN p1 % Unit ELSE p1
        o2 == IF p1 >= Unit THEN reset_physics_state(o) ELSE o
        p3 == IF p2 < 0 THEN p2 + ((-p2 + Unit - 1) \div Unit) * Unit ELSE p2
    IN  [phase |-> p3, x |-> o2]

\* A wrap that forgets reset_physics_state.
LoopingAdvance_NoReset(o, phase, inc) ==
    LET p1 == phase + inc
        p2 == IF p1 >= Unit THEN p1 - Unit ELSE p1
    IN  [phase |-> p2, x |-> o]

\* Looping mode: accumulate, wrap and reset when the cycle completes.
LoopingAdvance(o, phase, inc) ==
    LET p1 == phase + inc
        p2 == IF p1 >= Unit THEN p1 - Unit ELSE p1
        o2 == IF p1 >= Unit THEN reset_physics_state(o) ELSE o
        \* while (phase < 0.0) phase += 1.0;
        p3 == IF p2 < 0 THEN p2 + ((-p2 + Unit - 1) \div Unit) * Unit ELSE p2
    IN  [phase |-> p3, x |-> o2]

\* The envelope that stops the phase at 1.0 when the first cycle ends.
EnvelopeAdvance_Clamped(o, phase, inc) ==
    IF o.envelope_active # 0
    THEN LET p1 == phase + inc
         IN  IF p1 >= Unit
             THEN [phase |-> Unit, x |-> [o EXCEPT !.envelope_active = 0]]
             ELSE [phase |-> p1, x |-> o]
    ELSE [phase |-> phase, x |-> o]

\* The envelope whose first cycle ends only once the phase is past 1.0.
EnvelopeAdvance_CompletesLate(o, phase, inc) ==
    IF o.envelope_active # 0
    THEN LET p1 == phase + inc
         IN  [phase |-> p1,
              x |-> IF p1 > Unit THEN [o EXCEPT !.envelope_active = 0] ELSE o]
    ELSE [phase |-> phase + inc, x |-> o]

\* Envelope mode: the phase keeps growing; the first cycle's end is marked.
EnvelopeAdvance(o, phase, inc) ==
    IF o.envelope_active # 0
    THEN LET p1 == phase + inc
         IN  [phase |-> p1,
              x |-> IF p1 >= Unit THEN [o EXCEPT !.envelope_active = 0] ELSE o]
    ELSE [phase |-> phase + inc, x |-> o]

\* The mode-specific phase update of one sample.
AdvancePhase(o, phase, inc) ==
    IF o.looping_mode # 0 THEN LoopingAdvance(o, phase, inc)
    ELSE EnvelopeAdvance(o, phase, inc)

\* The four inputs of one sample: the signal's value where a signal is
\* connected, the stored float otherwise; then clamped.
ResolveFreq(o, freq_in) ==
    CLAMP(IF o.freq_has_signal # 0 THEN freq_in ELSE o.freq_float, 0, 1000 * Unit)

\* A type selector rounded to the nearest integer instead of truncated.
ResolveType_Rounds(o, type_in) ==
    ToLong(CLAMP(IF o.type_has_signal # 0 THEN type_in ELSE o.type_float, 0, 5 * Unit)
             + Dec(5, 10))

ResolveType(o, type_in) ==
    ToLong(CLAMP(IF o.type_has_signal # 0 THEN type_in ELSE o.type_float, 0, 5 * Unit))

ResolvePhysics(o, physics_in) ==
    CLAMP(IF o.physics_has_signal # 0 THEN physics_in ELSE o.physics_float, 0, Unit)

ResolveDamping(o, damping_in) ==
    CLAMP(IF o.damping_has_signal # 0 THEN damping_in ELSE o.damping_float, 0, Unit)

\* One iteration of the while (n--) loop: the instance and the local phase
\* after it; the sample written to the outlet is x.last_value.
SampleStep(o, phase, freq_in, type_in, physics_in, damping_in) ==
    LET freq    == ResolveFreq(o, freq_in)
        type    == ResolveType(o, type_in)
        param   == ResolvePhysics(o, physics_in)
        damping == ResolveDamping(o, damping_in)
        adv     == AdvancePhase(o, phase, PhaseInc(freq, o.sr))
        sim     == Simulate(type, adv.x, adv.phase, param, damping)
    IN  [phase |-> adv.phase, x |-> [sim.x EXCEPT !.last_value = sim.out]]

PerformBegin ==
    /\ pc = "idle"
    /\ pc' = "run"
    /\ lphase' = x.phase
    /\ last' = <<"begin">>
    /\ UNCHANGED x

PerformSample(freq_in, type_in, physics_in, damping_in) ==
    /\ pc = "run"
    /\ LET r == SampleStep(x, lphase, freq_in, type_in, physics_in, damping_in)
       IN  /\ r.phase <= MaxPhaseSteps * PhaseStep
           /\ r.phase % PhaseStep <= MaxCreep
           /\ r.x.bounce_count <= MaxContacts * Unit
           /\ x' = r.x
           /\ lphase' = r.phase
    /\ last' = <<"sample">>
    /\ UNCHANGED pc

PerformEnd ==
    /\ pc = "run"
    /\ pc' = "idle"
    /\ x' = [x EXCEPT !.phase = lphase]
    /\ lphase' = 0
    /\ last' = <<"end">>

\* ------------------------------------------------------------------------
\* Messages
\* ------------------------------------------------------------------------

\* A float handler that stores the clamped type without truncating it.
physicslfo_float_NoTruncate(o, inlet, f) ==
    CASE inlet = 0 -> [o EXCEPT !.freq_float = CLAMP(f, 0, 1000 * Unit)]
      [] inlet = 1 -> [o EXCEPT !.type_float = CLAMP(f, 0, 5 * Unit)]
      [] inlet = 2 -> [o EXCEPT !.physics_float = CLAMP(f, 0, Unit)]
      [] inlet = 3 -> [o EXCEPT !.damping_float = CLAMP(f, 0, Unit)]
      [] OTHER     -> o

physicslfo_float(o, inlet, f) ==
    CASE inlet = 0 -> [o EXCEPT !.freq_float = CLAMP(f, 0, 1000 * Unit)]
      [] inlet = 1 -> [o EXCEPT !.type_float = ToDouble(ToLong(CLAMP(f, 0, 5 * Unit)))]
      [] inlet = 2 -> [o EXCEPT !.physics_float = CLAMP(f, 0, Unit)]
      [] inlet = 3 -> [o EXCEPT !.damping_float = CLAMP(f, 0, Unit)]
      [] OTHER     -> o

physicslfo_int(o, inlet, n) ==
    CASE inlet = 0 -> [o EXCEPT !.freq_float = CLAMP(ToDouble(n), 0, 1000 * Unit)]
      [] inlet = 1 -> [o EXCEPT !.type_float = ToDouble(CLAMP(n, 0, 5))]
      [] inlet = 2 -> [o EXCEPT !.physics_float = CLAMP(ToDouble(n), 0, Unit)]
      [] inlet = 3 -> [o EXCEPT !.damping_float = CLAMP(ToDouble(n), 0, Unit)]
      [] OTHER     -> o

\* A bang whose envelope branch forgets reset_physics_state.
physicslfo_bang_NoResetInEnvelope(o, inlet) ==
    IF inlet = 0
    THEN IF o.looping_mode # 0
         THEN [o EXCEPT !.phase = 0, !.velocity = 0, !.acceleration = 0,
                        !.energy = Unit, !.bounce_count = 0, !.spin_phase = 0]
         ELSE [o EXCEPT !.phase = 0, !.envelope_active = 1]
    ELSE o

\* A bang that starts the envelope whatever the mode.
physicslfo_bang_AlwaysActive(o, inlet) ==
    IF inlet = 0
    THEN [o EXCEPT !.phase = 0, !.velocity = 0, !.acceleration = 0,
                   !.energy = Unit, !.bounce_count = 0, !.spin_phase = 0,
                   !.envelope_active = 1]
    ELSE o

physicslfo_bang(o, inlet) ==
    IF inlet = 0
    THEN IF o.looping_mode # 0
         THEN reset_physics_state([o EXCEPT !.phase = 0])
         ELSE [reset_physics_state([o EXCEPT !.phase = 0]) EXCEPT !.envelope_active = 1]
    ELSE o

\* A mode switch that resets the physics state on entering looping mode.
physicslfo_looping_ResetOnLoop(o, n) ==
    IF n # 0
    THEN [o EXCEPT !.looping_mode = 1, !.velocity = 0, !.acceleration = 0,
                   !.energy = Unit, !.bounce_count = 0, !.spin_phase = 0]
    ELSE [o EXCEPT !.looping_mode = 0, !.envelope_active = 0]

\* A mode switch that rewinds and resets on entering envelope mode.
physicslfo_looping_ResetOnEnvelope(o, n) ==
    IF n # 0
    THEN [o EXCEPT !.looping_mode = 1]
    ELSE [o EXCEPT !.looping_mode = 0, !.envelope_active = 0, !.phase = 0,
                   !.velocity = 0, !.acceleration = 0, !.energy = Unit,
                   !.bounce_count = 0, !.spin_phase = 0]

\* A mode switch that clears envelope_active whatever the new mode.
physicslfo_looping_ClearsEnvelope(o, n) ==
    [o EXCEPT !.looping_mode = IF n # 0 THEN 1 ELSE 0, !.envelope_active = 0]

physicslfo_looping(o, n) ==
    LET o1 == [o EXCEPT !.looping_mode = IF n # 0 THEN 1 ELSE 0]
    IN  IF o1.looping_mode = 0 THEN [o1 EXCEPT !.envelope_active = 0] ELSE o1

\* A phase message that is obeyed in envelope mode too.
physicslfo_phase_AnyMode(o, f) ==
    [o EXCEPT !.phase = CLAMP(f, 0, Unit), !.velocity = 0, !.acceleration = 0,
              !.energy = Unit, !.bounce_count = 0, !.spin_phase = 0]

\* A phase message that stores its argument unclamped.
physicslfo_phase_NoClamp(o, f) ==
    IF o.looping_mode # 0
    THEN [o EXCEPT !.phase = f, !.velocity = 0, !.acceleration = 0,
                   !.energy = Unit, !.bounce_count = 0, !.spin_phase = 0]
    ELSE o

physicslfo_phase(o, f) ==
    IF o.looping_mode # 0
    THEN reset_physics_state([o EXCEPT !.phase = CLAMP(f, 0, Unit)])
    ELSE o

\* Messages are handled between signal blocks.
FloatMsg(inlet, f) ==
    /\ pc = "idle"
    /\ x' = physicslfo_float(x, inlet, f)
    /\ last' = <<"float", inlet, f>>
    /\ UNCHANGED <<pc, lphase>>

IntMsg(inlet, n) ==
    /\ pc = "idle"
    /\ x' = physicslfo_int(x, inlet, n)
    /\ last' = <<"int", inlet, n>>
    /\ UNCHANGED <<pc, lphase>>

BangMsg(inlet) ==
    /\ pc = "idle"
    /\ x' = physicslfo_bang(x, inlet)
    /\ last' = <<"bang", inlet>>
    /\ UNCHANGED <<pc, lphase>>

LoopingMsg(n) ==
    /\ pc = "idle"
    /\ x' = physicslfo_looping(x, n)
    /\ last' = <<"looping", n>>
    /\ UNCHANGED <<pc, lphase>>

PhaseMsg(f) ==
    /\ pc = "idle"
    /\ x' = physicslfo_phase(x, f)
    /\ last' = <<"phase", f>>
    /\ UNCHANGED <<pc, lphase>>

\* ------------------------------------------------------------------------
\* Specification
\* ------------------------------------------------------------------------

\* The values the sample loop can read on an inlet: those of the signal when
\* one is connected; otherwise the inlet's buffer is not read.
FreqIn == IF x.freq_has_signal # 0 THEN FreqSignal ELSE {0}

TypeIn == IF x.type_has_signal # 0 THEN TypeSignal ELSE {0}

PhysicsIn == IF x.physics_has_signal # 0 THEN PhysicsSignal ELSE {0}

DampingIn == IF x.damping_has_signal # 0 THEN DampingSignal ELSE {0}

Next ==
    \/ \E count \in SignalCounts, sr \in SampleRates : Dsp64(count, sr)
    \/ PerformBegin
    \/ \E f \in FreqIn, t \in TypeIn, p \in PhysicsIn, d \in DampingIn :
           PerformSample(f, t, p, d)
    \/ PerformEnd
    \/ \E inlet \in 0..3 : \E f \in FloatArgs(inlet) : FloatMsg(inlet, f)
    \/ \E inlet \in 0..3 : \E n \in IntArgs(inlet) : IntMsg(inlet, n)
    \/ \E inlet \in 0..1 : BangMsg(inlet)
    \/ \E n \in {0, 1} : LoopingMsg(n)
    \/ \E f \in PhaseArgs : PhaseMsg(f)

Spec == Init /\ [][Next]_vars

\* ------------------------------------------------------------------------
\* Specification of instances created with arguments: a type, a shape and a
\* damping given at creation, driven by the held rate with no signal
\* connected, triggered and switched between the two modes.
\* ------------------------------------------------------------------------

ScenarioTypes == {0, 2, 4}

ScenarioShapes == {Dec(5, 10), Unit}

ScenarioDampings == {0, Dec(25, 100), Unit}

ScenarioArgs ==
    {<<AtomLong(t), AtomFloat(s), AtomFloat(d)>> :
        t \in ScenarioTypes, s \in ScenarioShapes, d \in ScenarioDampings}

ScenarioInit ==
    /\ \E sr \in SampleRates, argv \in ScenarioArgs : x = physicslfo_new(sr, argv)
    /\ pc = "idle"
    /\ lphase = 0
    /\ last = <<"new">>

ScenarioNext ==
    \/ PerformBegin
    \/ PerformSample(0, 0, 0, 0)
    \/ PerformEnd
    \/ \E f \in FloatArgs(0) : FloatMsg(0, f)
    \/ BangMsg(0)
    \/ \E n \in {0, 1} : LoopingMsg(n)

ScenarioSpec == ScenarioInit /\ [][ScenarioNext]_vars

\* ------------------------------------------------------------------------
\* Specification with messages delivered during a block. The message
\* handlers run on the control thread with no lock and no queue, so a handler
\* can run while physicslfo_perform64 is inside its loop; here it runs whole,
\* between two iterations (the interleaving most favourable to the code: the
\* handler's unsynchronized accesses race with the loop's, and a finer
\* interleaving can only add outcomes). The loop keeps using its local phase.
\* ------------------------------------------------------------------------

FloatInBlock(inlet, f) ==
    /\ pc = "run"
    /\ x' = physicslfo_float(x, inlet, f)
    /\ last' = <<"float", inlet>>
    /\ UNCHANGED <<pc, lphase>>

BangInBlock(inlet) ==
    /\ pc = "run"
    /\ x' = physicslfo_bang(x, inlet)
    /\ last' = <<"bang", inlet>>
    /\ UNCHANGED <<pc, lphase>>

LoopingInBlock(n) ==
    /\ pc = "run"
    /\ x' = physicslfo_looping(x, n)
    /\ last' = <<"looping", n>>
    /\ UNCHANGED <<pc, lphase>>

PhaseInBlock(f) ==
    /\ pc = "run"
    /\ x' = physicslfo_phase(x, f)
    /\ last' = <<"phase", f>>
    /\ UNCHANGED <<pc, lphase>>

ConcurrentNext ==
    \/ PerformBegin
    \/ PerformSample(0, 0, 0, 0)
    \/ PerformEnd
    \/ \E f \in FloatArgs(0) : FloatMsg(0, f)
    \/ BangMsg(0)
    \/ \E n \in {0, 1} : LoopingMsg(n)
    \/ \E f \in PhaseArgs : PhaseMsg(f)
    \/ \E f \in FloatArgs(0) : FloatInBlock(0, f)
    \/ BangInBlock(0)
    \/ \E n \in {0, 1} : LoopingInBlock(n)
    \/ \E f \in PhaseArgs : PhaseInBlock(f)

ConcurrentSpec == Init /\ [][ConcurrentNext]_vars

\* ------------------------------------------------------------------------
\* IEEE 754 binary64 arithmetic, for the runs in which the rounding of the
\* phase accumulator decides the sample on which the phase wraps. A double
\* d >= 0 is held exactly, as the natural number d * 2^120 written in limbs
\* of 12 bits, least significant first, without leading zero limbs; every
\* operation computes the exact result and rounds it to 53 significant
\* bits, to nearest, ties to even.  Carries and borrows are found by
\* look-ahead; SubSeq
\* turns a function into the tuple of its values.
\* ------------------------------------------------------------------------

LimbBits == 12

LimbBase == 4096

FracLimbs == 10

MantissaBits == 53

Limb(a, i) == IF 1 <= i /\ i <= Len(a) THEN a[i] ELSE 0

NatNorm(a) ==
    LET used == {i \in 1..Len(a) : a[i] # 0}
    IN  IF used = {} THEN <<>>
        ELSE SubSeq(a, 1, CHOOSE i \in used : \A j \in used : j <= i)

\* A whole number below 2^31.
NatOfInt(n) == NatNorm(<<n % LimbBase, (n \div LimbBase) % LimbBase, n \div (LimbBase * LimbBase)>>)

NatToInt(a) == Limb(a, 1) + LimbBase * (Limb(a, 2) + LimbBase * Limb(a, 3))

\* The number whose digits e[k] may exceed a limb by less than a limb: the
\* carry into digit k is 1 exactly when some lower digit overflows and all
\* digits between pass a carry on.
NatResolve(e) ==
    NatNorm([k \in 1..(Len(e) + 1) |->
               LET carry == IF \E j \in 1..(k - 1) :
                                  /\ e[j] >= LimbBase
                                  /\ \A i \in (j + 1)..(k - 1) : e[i] >= LimbBase - 1
                            THEN 1 ELSE 0
               IN  (Limb(e, k) + carry) % LimbBase])

MaxOf(m, n) == IF m > n THEN m ELSE n

NatAdd(a, b) ==
    NatResolve(SubSeq([k \in 1..MaxOf(Len(a), Len(b)) |-> Limb(a, k) + Limb(b, k)],
                      1, MaxOf(Len(a), Len(b))))

\* a - b for a >= b
NatSub(a, b) ==
    NatNorm([k \in 1..Len(a) |->
               LET borrow == IF \E j \in 1..(k - 1) :
                                   /\ a[j] < Limb(b, j)
                                   /\ \A i \in (j + 1)..(k - 1) : a[i] <= Limb(b, i)
                             THEN 1 ELSE 0
               IN  (a[k] - Limb(b, k) - borrow + LimbBase) % LimbBase])

NatLess(a, b) ==
    \/ Len(a) < Len(b)
    \/ /\ Len(a) = Len(b)
       /\ \E j \in 1..Len(a) :
             /\ a[j] < b[j]
             /\ \A i \in (j + 1)..Len(a) : a[i] = b[i]

\* The number of zero limbs below the lowest non-zero limb of a # 0.
NatLowLimbs(a) == (CHOOSE i \in 1..Len(a) : a[i] # 0 /\ \A j \in 1..(i - 1) : a[j] = 0) - 1

\* The product of two numbers of at most 53 significant bits each, which
\* span at most 6 limbs above their za and zb low zero limbs: the column
\* sums of the long multiplication, still to be carried.
MulColumns(a, za, b, zb) ==
    SubSeq([k \in 1..14 |->
               Limb(a, za + 1) * Limb(b, zb + k)
             + Limb(a, za + 2) * Limb(b, zb + k - 1)
             + Limb(a, za + 3) * Limb(b, zb + k - 2)
             + Limb(a, za + 4) * Limb(b, zb + k - 3)
             + Limb(a, za + 5) * Limb(b, zb + k - 4)
             + Limb(a, za + 6) * Limb(b, zb + k - 5)], 1, 14)

\* Digits below 2^28 carried once: digits below three limbs.
CarryWide(col) ==
    SubSeq([k \in 1..Len(col) |->
               (col[k] % LimbBase)
             + ((Limb(col, k - 1) \div LimbBase) % LimbBase)
             + (Limb(col, k - 2) \div (LimbBase * LimbBase))], 1, Len(col))

\* Digits below three limbs carried once: digits that NatResolve takes.
CarryNarrow(d) ==
    SubSeq([k \in 1..Len(d) |-> (d[k] % LimbBase) + (Limb(d, k - 1) \div LimbBase)],
           1, Len(d))

NatShiftLimbs(a, z) == NatNorm([k \in 1..z |-> 0] \o a)

NatMul(a, b) ==
    NatShiftLimbs(NatResolve(CarryNarrow(CarryWide(
                      MulColumns(a, NatLowLimbs(a), b, NatLowLimbs(b))))),
                  NatLowLimbs(a) + NatLowLimbs(b))

\* (num * LimbBase^j) % den, for den below 2^19.
RECURSIVE RatioRem(_, _, _)
RatioRem(num, den, j) ==
    IF j = 0 THEN num % den ELSE (RatioRem(num, den, j - 1) * LimbBase) % den

\* The whole part of num * 2^240 / den, digit by digit of the long division.
RatioDigits(num, den) ==
    SubSeq([k \in 1..(2 * FracLimbs) |->
               (RatioRem(num, den, 2 * FracLimbs - k) * LimbBase) \div den],
           1, 2 * FracLimbs) \o NatOfInt(num \div den)

BitLength(v) == IF v = 0 THEN 0 ELSE CHOOSE n \in 1..LimbBits : 2^(n - 1) <= v /\ v < 2^n

NatBitLength(a) ==
    IF Len(a) = 0 THEN 0 ELSE LimbBits * (Len(a) - 1) + BitLength(a[Len(a)])

NatBit(a, i) == (Limb(a, i \div LimbBits + 1) \div 2^(i % LimbBits)) % 2

\* The low s bits of a are all zero.
NatLowZero(a, s) ==
    /\ \A j \in 1..(s \div LimbBits) : Limb(a, j) = 0
    /\ (Limb(a, s \div LimbBits + 1) % 2^(s % LimbBits)) = 0

\* a with its low s bits cleared.
NatClearLow(a, s) ==
    NatNorm([j \in 1..Len(a) |->
               IF j <= s \div LimbBits THEN 0
               ELSE IF j = s \div LimbBits + 1 THEN a[j] - (a[j] % 2^(s % LimbBits))
               ELSE a[j]])

NatPow2(s) ==
    SubSeq([j \in 1..(s \div LimbBits + 1) |->
               IF j = s \div LimbBits + 1 THEN 2^(s % LimbBits) ELSE 0],
           1, s \div LimbBits + 1)

\* a rounded to a multiple of 2^s, to nearest, ties to even; sticky tells
\* that the exact value lies strictly above a.
RoundAt(a, s, sticky) ==
    IF s = 0 THEN a
    ELSE IF NatBit(a, s - 1) = 1 /\ (sticky \/ ~NatLowZero(a, s - 1) \/ NatBit(a, s) = 1)
         THEN NatAdd(NatClearLow(a, s), NatPow2(s))
         ELSE NatClearLow(a, s)

\* The weight of the last of MantissaBits significant bits of a number of
\* len bits, but no less than low.
RoundShift(len, low) == IF len - MantissaBits > low THEN len - MantissaBits ELSE low

\* a rounded to MantissaBits significant bits, but no finer than bit low.
RoundNat(a, low, sticky) == RoundAt(a, RoundShift(NatBitLength(a), low), sticky)

NatShiftUp(a) == IF Len(a) = 0 THEN <<>> ELSE [j \in 1..FracLimbs |-> 0] \o a

NatShiftDown(a) == IF Len(a) <= FracLimbs THEN <<>> ELSE SubSeq(a, FracLimbs + 1, Len(a))

\* The double nearest to num / den, for whole numbers: a decimal literal,
\* an integer held in a double, or a quotient of two of them.
DoubleRatio(num, den) ==
    NatShiftDown(RoundNat(NatNorm(RatioDigits(num, den)), LimbBits * FracLimbs,
                          RatioRem(num, den, 2 * FracLimbs) # 0))

\* (double)n for a whole number n below 2^31
DoubleOfLong(n) == NatShiftUp(NatOfInt(n))

DoubleAdd(a, b) ==
    IF Len(a) = 0 THEN b
    ELSE IF Len(b) = 0 THEN a
    ELSE RoundNat(NatAdd(a, b), 0, FALSE)

\* a - b for a >= b
DoubleSub(a, b) ==
    IF a = b THEN <<>>
    ELSE IF Len(b) = 0 THEN a
    ELSE RoundNat(NatSub(a, b), 0, FALSE)

DoubleMul(a, b) ==
    IF Len(a) = 0 \/ Len(b) = 0 THEN <<>>
    ELSE IF a = NatShiftUp(<<1>>) THEN b
    ELSE IF b = NatShiftUp(<<1>>) THEN a
    ELSE NatShiftDown(RoundNat(NatMul(a, b), LimbBits * FracLimbs, FALSE))

DoubleLess(a, b) == NatLess(a, b)

\* (long)a
DoubleToLong(a) == NatToInt(NatShiftDown(a))

\* fmod(a, 1.0)
DoubleFrac(a) == NatNorm(SubSeq(a, 1, IF Len(a) < FracLimbs THEN Len(a) ELSE FracLimbs))

\* The literals of the source.
Double0_02 == DoubleRatio(2, 100)

Double0_1 == DoubleRatio(1, 10)

Double0_4 == DoubleRatio(4, 10)

Double0_5 == DoubleRatio(5, 10)

Double1_0 == DoubleOfLong(1)

Double2_0 == DoubleOfLong(2)

Double4_0 == DoubleOfLong(4)

Double5_0 == DoubleOfLong(5)

Double6_0 == DoubleOfLong(6)

Double1000_0 == DoubleOfLong(1000)

\* ------------------------------------------------------------------------
\* The object in binary64.  The record has the fields of t_physicslfo with
\* every double held as above (0.0 is the empty sequence); only
\* non-negative doubles occur.  In the runs below pc is <<"idle">> or
\* <<"run", n>> with n the perform routine's local n, and last carries,
\* after the operation's name, the number of samples written to the outlet
\* since the object was created or last triggered.
\* ------------------------------------------------------------------------

DoubleCLAMP(a, lo, hi) ==
    IF DoubleLess(lo, a) THEN (IF DoubleLess(a, hi) THEN a ELSE hi) ELSE lo

\* pow(b, e) where the result is exactly representable: e is 0 or 1, or b
\* is 0.5 and e a whole number.  Other arguments are outside this model.
DoublePow(b, e) ==
    CASE e = <<>> -> Double1_0
      [] e = Double1_0 -> b
      [] /\ e \notin {<<>>, Double1_0}
         /\ b = Double0_5
         /\ DoubleFrac(e) = <<>>
         /\ DoubleToLong(e) < 30 -> DoubleRatio(1, 2^DoubleToLong(e))

reset_physics_state64(o) ==
    [o EXCEPT !.velocity = <<>>,
              !.acceleration = <<>>,
              !.energy = Double1_0,
              !.bounce_count = <<>>,
              !.spin_phase = <<>>]

simulate_multibounce64(o, t, param, damping) ==
    LET bounces_per_cycle == DoubleAdd(Double2_0, DoubleMul(param, Double6_0))
        segment_phase     == DoubleFrac(DoubleMul(t, bounces_per_cycle))
        current_bounce    == DoubleToLong(DoubleMul(t, bounces_per_cycle))
        height            == DoubleMul(DoubleMul(Double4_0, segment_phase),
                                       DoubleSub(Double1_0, segment_phase))
        energy_loss_per_bounce == DoubleAdd(Double0_5, DoubleMul(damping, Double0_4))
        bounce_amplitude  == DoublePow(energy_loss_per_bounce, DoubleOfLong(current_bounce))
        stop_threshold    == Double0_02
    IN  IF DoubleLess(bounce_amplitude, stop_threshold)
        THEN [out |-> <<>>, x |-> o]
        ELSE [out |-> DoubleMul(height, bounce_amplitude), x |-> o]

\* switch (type): the multi-bounce is the type whose arithmetic is rational;
\* the other five are outside this model.
Simulate64(type, o, t, param, damping) ==
    CASE type = 4 -> simulate_multibounce64(o, t, param, damping)

\* A float creation argument, given as the double it holds.
AtomDouble(num, den) == [a_type |-> "A_FLOAT", w |-> DoubleRatio(num, den)]

atom_getlong64(a) == IF a.a_type = "A_LONG" THEN a.w ELSE DoubleToLong(a.w)

atom_getfloat64(a) == IF a.a_type = "A_LONG" THEN DoubleOfLong(a.w) ELSE a.w

physicslfo_new64(sr, argv) ==
    LET o0 == [phase |-> <<>>, sr |-> sr, sr_inv |-> DoubleRatio(1, sr),
               freq_float |-> Double1_0, type_float |-> <<>>,
               physics_float |-> Double0_5, damping_float |-> Double0_1,
               freq_has_signal |-> 0, type_has_signal |-> 0,
               physics_has_signal |-> 0, damping_has_signal |-> 0,
               velocity |-> <<>>, acceleration |-> <<>>, energy |-> Double1_0,
               bounce_count |-> <<>>, last_value |-> <<>>, spin_phase |-> <<>>,
               looping_mode |-> 1, envelope_active |-> 0]
        o1 == IF Len(argv) >= 1 /\ argv[1].a_type = "A_LONG"
              THEN [o0 EXCEPT !.type_float =
                                 DoubleOfLong(CLAMP(atom_getlong64(argv[1]), 0, 5))]
              ELSE o0
        o2 == IF Len(argv) >= 2 /\ argv[2].a_type \in {"A_FLOAT", "A_LONG"}
              THEN [o1 EXCEPT !.physics_float =
                                 DoubleCLAMP(atom_getfloat64(argv[2]), <<>>, Double1_0)]
              ELSE o1
        o3 == IF Len(argv) >= 3 /\ argv[3].a_type \in {"A_FLOAT", "A_LONG"}
              THEN [o2 EXCEPT !.damping_float =
                                 DoubleCLAMP(atom_getfloat64(argv[3]), <<>>, Double1_0)]
              ELSE o2
    IN  o3

LoopingAdvance64(o, phase, inc) ==
    LET p1 == DoubleAdd(phase, inc)
    IN  IF ~DoubleLess(p1, Double1_0)
        THEN [phase |-> DoubleSub(p1, Double1_0), x |-> reset_physics_state64(o)]
        ELSE [phase |-> p1, x |-> o]

EnvelopeAdvance64(o, phase, inc) ==
    LET p1 == DoubleAdd(phase, inc)
    IN  [phase |-> p1,
         x |-> IF o.envelope_active # 0 /\ ~DoubleLess(p1, Double1_0)
               THEN [o EXCEPT !.envelope_active = 0] ELSE o]

\* One iteration of the while (n--) loop in binary64.
SampleStep64(o, phase, freq_in, type_in, physics_in, damping_in) ==
    LET freq    == DoubleCLAMP(IF o.freq_has_signal # 0 THEN freq_in ELSE o.freq_float,
                               <<>>, Double1000_0)
        type    == DoubleToLong(DoubleCLAMP(IF o.type_has_signal # 0 THEN type_in
                                            ELSE o.type_float,
                                            <<>>, Double5_0))
        param   == DoubleCLAMP(IF o.physics_has_signal # 0 THEN physics_in
                               ELSE o.physics_float,
                               <<>>, Double1_0)
        damping == DoubleCLAMP(IF o.damping_has_signal # 0 THEN damping_in
                               ELSE o.damping_float,
                               <<>>, Double1_0)
        inc     == DoubleMul(freq, o.sr_inv)
        adv     == IF o.looping_mode # 0 THEN LoopingAdvance64(o, phase, inc)
                   ELSE EnvelopeAdvance64(o, phase, inc)
        sim     == Simulate64(type, adv.x, adv.phase, param, damping)
    IN  [phase |-> adv.phase, x |-> [sim.x EXCEPT !.last_value = sim.out]]

physicslfo_float64(o, inlet, f) ==
    CASE inlet = 0 -> [o EXCEPT !.freq_float = DoubleCLAMP(f, <<>>, Double1000_0)]
      [] inlet = 1 -> [o EXCEPT !.type_float =
                                   DoubleOfLong(DoubleToLong(DoubleCLAMP(f, <<>>, Double5_0)))]
      [] inlet = 2 -> [o EXCEPT !.physics_float = DoubleCLAMP(f, <<>>, Double1_0)]
      [] inlet = 3 -> [o EXCEPT !.damping_float = DoubleCLAMP(f, <<>>, Double1_0)]
      [] inlet \notin 0..3 -> o

physicslfo_bang64(o, inlet) ==
    IF inlet = 0
    THEN IF o.looping_mode # 0
         THEN reset_physics_state64([o EXCEPT !.phase = <<>>])
         ELSE [reset_physics_state64([o EXCEPT !.phase = <<>>]) EXCEPT !.envelope_active = 1]
    ELSE o

\* sampleframes of the perform routine: the signal vector size.
VectorSizes == {64}

PerformBegin64(sampleframes) ==
    /\ pc = <<"idle">>
    /\ pc' = <<"run", sampleframes>>
    /\ lphase' = x.phase
    /\ last' = <<"begin">> \o Tail(last)
    /\ UNCHANGED x

\* One iteration of the loop, while fewer than limit samples were written;
\* the samples written to the outlet are kept in last[3].
PerformSample64(limit) ==
    /\ pc[1] = "run"
    /\ pc[2] > 0
    /\ last[2] < limit
    /\ \E r \in {SampleStep64(x, lphase, <<>>, <<>>, <<>>, <<>>)} :
          /\ x' = r.x
          /\ lphase' = r.phase
          /\ last' = <<"sample", last[2] + 1, Append(last[3], r.x.last_value)>>
    /\ pc' = <<"run", pc[2] - 1>>

PerformEnd64 ==
    /\ pc = <<"run", 0>>
    /\ pc' = <<"idle">>
    /\ x' = [x EXCEPT !.phase = lphase]
    /\ lphase' = <<>>
    /\ last' = <<"end">> \o Tail(last)

FloatMsg64(inlet, f) ==
    /\ pc = <<"idle">>
    /\ x' = physicslfo_float64(x, inlet, f)
    /\ last' = <<"float">> \o Tail(last)
    /\ UNCHANGED <<pc, lphase>>

BangMsg64(inlet) ==
    /\ pc = <<"idle">>
    /\ x' = physicslfo_bang64(x, inlet)
    /\ last' = IF inlet = 0 THEN <<"bang", 0, <<>> >> ELSE <<"bang">> \o Tail(last)
    /\ UNCHANGED <<pc, lphase>>

\* ------------------------------------------------------------------------
\* Short runs of the multi-bounce at rates that divide the sample rate: the
\* rate is set on the new or newly triggered object, then held.
\* ------------------------------------------------------------------------

MaxShortFrames == 130

PeriodSampleRates == {8000, 48000}

PeriodRates == {800, 1000}

PeriodArgs == {<<AtomLong(4), AtomDouble(0, 1), AtomDouble(0, 1)>>}

PeriodInit ==
    /\ \E sr \in PeriodSampleRates, argv \in PeriodArgs : x = physicslfo_new64(sr, argv)
    /\ pc = <<"idle">>
    /\ lphase = <<>>
    /\ last = <<"new", 0, <<>> >>

PeriodNext ==
    \/ \E sampleframes \in VectorSizes : PerformBegin64(sampleframes)
    \/ PerformSample64(MaxShortFrames)
    \/ PerformEnd64
    \/ \E f \in PeriodRates : last[2] = 0 /\ FloatMsg64(0, DoubleOfLong(f))
    \/ BangMsg64(0)

PeriodSpec == PeriodInit /\ [][PeriodNext]_vars

\* ------------------------------------------------------------------------
\* Scenario A: the bounce with shape 0.5 and damping 0.1 at the default
\* rate of 1 Hz and 48000 samples per second, run for one second.  The
\* phase accumulator (phase, sr_inv, freq_float) is held in binary64, which
\* decides the sample of the wrap; the physics state and the output are
\* held in the fixed point of the main model and computed at the phase
\* cut to four decimals.
\* ------------------------------------------------------------------------

MaxSeconds == 1

\* The double, below 2^7, cut to 24 binary places and then to the fixed point.
ToFixed(a) ==
    LET hi == Limb(a, FracLimbs + 1) * LimbBase + Limb(a, FracLimbs)
        lo == Limb(a, FracLimbs - 1)
    IN  (hi * Unit + (lo * Unit) \div LimbBase) \div LimbBase

physicslfo_newMixed(sr, argv) ==
    LET o == physicslfo_new(sr, argv)
    IN  [f \in DOMAIN o \cup {"sr_inv"} |->
            CASE f = "phase" -> <<>>
              [] f = "sr_inv" -> DoubleRatio(1, sr)
              [] f = "freq_float" -> Double1_0
              [] f \notin {"phase", "sr_inv", "freq_float"} -> o[f]]

\* The looping branch that wraps once the phase has reached 0.5.
LoopingAdvanceMixed_WrapsAtHalf(o, phase, inc) ==
    LET p1 == DoubleAdd(phase, inc)
    IN  IF ~DoubleLess(p1, Double0_5)
        THEN [phase |-> DoubleSub(p1, Double0_5), x |-> reset_physics_state(o)]
        ELSE [phase |-> p1, x |-> o]

LoopingAdvanceMixed(o, phase, inc) ==
    LET p1 == DoubleAdd(phase, inc)
    IN  IF ~DoubleLess(p1, Double1_0)
        THEN [phase |-> DoubleSub(p1, Double1_0), x |-> reset_physics_state(o)]
        ELSE [phase |-> p1, x |-> o]

SampleStepMixed(o, phase, freq_in, type_in, physics_in, damping_in) ==
    LET freq    == DoubleCLAMP(IF o.freq_has_signal # 0 THEN freq_in ELSE o.freq_float,
                               <<>>, Double1000_0)
        type    == ResolveType(o, type_in)
        param   == ResolvePhysics(o, physics_in)
        damping == ResolveDamping(o, damping_in)
        inc     == DoubleMul(freq, o.sr_inv)
        adv     == IF o.looping_mode # 0 THEN LoopingAdvanceMixed(o, phase, inc)
                   ELSE EnvelopeAdvance64(o, phase, inc)
        sim     == Simulate(type, adv.x, ToFixed(adv.phase), param, damping)
    IN  [phase |-> adv.phase, x |-> [sim.x EXCEPT !.last_value = sim.out]]

physicslfo_bangMixed(o, inlet) ==
    IF inlet = 0
    THEN IF o.looping_mode # 0
         THEN reset_physics_state([o EXCEPT !.phase = <<>>])
         ELSE [reset_physics_state([o EXCEPT !.phase = <<>>]) EXCEPT !.envelope_active = 1]
    ELSE o

PerformSampleMixed(limit) ==
    /\ pc[1] = "run"
    /\ pc[2] > 0
    /\ last[2] < limit
    /\ \E r \in {SampleStepMixed(x, lphase, <<>>, 0, 0, 0)} :
          /\ x' = r.x
          /\ lphase' = r.phase
    /\ pc' = <<"run", pc[2] - 1>>
    /\ last' = <<"sample", last[2] + 1>>

BangMsgMixed(inlet) ==
    /\ pc = <<"idle">>
    /\ x' = physicslfo_bangMixed(x, inlet)
    /\ last' = IF inlet = 0 THEN <<"bang", 0>> ELSE <<"bang">> \o Tail(last)
    /\ UNCHANGED <<pc, lphase>>

SecondArgs == {<<AtomLong(0), AtomFloat(Dec(5, 10)), AtomFloat(Dec(1, 10))>>}

SecondInit ==
    /\ \E argv \in SecondArgs : x = physicslfo_newMixed(48000, argv)
    /\ pc = <<"idle">>
    /\ lphase = <<>>
    /\ last = <<"new", 0>>

SecondNext ==
    \/ \E sampleframes \in VectorSizes : PerformBegin64(sampleframes)
    \/ PerformSampleMixed(MaxSeconds * x.sr)
    \/ PerformEnd64
    \/ BangMsgMixed(0)

SecondSpec == SecondInit /\ [][SecondNext]_vars

\* ------------------------------------------------------------------------
\* Specification of the parameter messages: floats and ints on each of the
\* four inlets, inside and outside the inlet's domain, with the signals
\* connected or not, in looping mode.
\* ------------------------------------------------------------------------

ControlFloatArgs(inlet) ==
    CASE inlet = 0 -> {Dec(1, 2)}
      [] inlet = 1 -> {Dec(17, 10)}
      [] inlet = 2 -> {Dec(3, 2)}
      [] inlet = 3 -> {-Dec(1, 2)}

ControlIntArgs(inlet) ==
    CASE inlet = 0 -> {-1}
      [] inlet = 1 -> {9}
      [] inlet = 2 -> {-1}
      [] inlet = 3 -> {3}

\* The rate signal of these runs.
ControlFreqIn == IF x.freq_has_signal # 0 THEN {-500 * Unit} ELSE {0}

ControlNext ==
    \/ \E count \in SignalCounts, sr \in SampleRates : Dsp64(count, sr)
    \/ PerformBegin
    \/ \E f \in ControlFreqIn, t \in TypeIn, p \in PhysicsIn, d \in DampingIn :
           PerformSample(f, t, p, d)
    \/ PerformEnd
    \/ \E inlet \in 0..3 : \E f \in ControlFloatArgs(inlet) : FloatMsg(inlet, f)
    \/ \E inlet \in 0..3 : \E n \in ControlIntArgs(inlet) : IntMsg(inlet, n)

ControlSpec == Init /\ [][ControlNext]_vars

\* ------------------------------------------------------------------------
\* Specification of instances created with 0 to 3 arguments, inside and
\* outside the domains: a whole type, then a shape and a damping given as
\* floats or ints.  last keeps the arguments of the creation.
\* ------------------------------------------------------------------------

CreationTypes == {-2, 1, 2, 3, 4, 9}

CreationSpecArgs ==
    {<<>>}
      \cup {<<AtomLong(t)>> : t \in CreationTypes}
      \cup {<<AtomLong(t), s>> : t \in {1, 3}, s \in {AtomFloat(-Dec(1, 2)), AtomLong(2)}}
      \cup {<<AtomLong(t), AtomFloat(Dec(25, 100)), d>> :
               t \in {4, 9}, d \in {AtomFloat(Dec(3, 2)), AtomFloat(Dec(75, 100)), AtomLong(-1)}}

CreationInit ==
    /\ \E sr \in SampleRates, argv \in CreationSpecArgs :
          /\ x = physicslfo_new(sr, argv)
          /\ last = <<"new", argv>>
    /\ pc = "idle"
    /\ lphase = 0

CreationNext ==
    \/ PerformBegin
    \/ PerformSample(0, 0, 0, 0)
    \/ PerformEnd
    \/ \E f \in FloatArgs(0) : FloatMsg(0, f)
    \/ BangMsg(0)
    \/ \E n \in {0, 1} : LoopingMsg(n)

CreationSpec == CreationInit /\ [][CreationNext]_vars

\* ------------------------------------------------------------------------
\* Specification of long envelope runs of the wobble: instances of type 5
\* created with a shape and a damping, triggered and run to the phase
\* MaxWobbleSteps * PhaseStep.
\* ------------------------------------------------------------------------

MaxWobbleSteps == 40

WobbleArgs ==
    {<<AtomLong(5), AtomFloat(s), AtomFloat(d)>> :
        s \in {0, Dec(5, 10)}, d \in {Dec(5, 10), Unit}}

WobbleInit ==
    /\ \E sr \in SampleRates, argv \in WobbleArgs : x = physicslfo_new(sr, argv)
    /\ pc = "idle"
    /\ lphase = 0
    /\ last = <<"new">>

WobbleSample ==
    /\ pc = "run"
    /\ LET r == SampleStep(x, lphase, 0, 0, 0, 0)
       IN  /\ r.phase <= MaxWobbleSteps * PhaseStep
           /\ r.phase % PhaseStep <= MaxCreep
           /\ x' = r.x
           /\ lphase' = r.phase
    /\ last' = <<"sample">>
    /\ UNCHANGED pc

WobbleNext ==
    \/ PerformBegin
    \/ WobbleSample
    \/ PerformEnd
    \/ \E f \in FloatArgs(0) : FloatMsg(0, f)
    \/ BangMsg(0)
    \/ \E n \in {0, 1} : LoopingMsg(n)

WobbleSpec == WobbleInit /\ [][WobbleNext]_vars

\* ------------------------------------------------------------------------
\* Specification of a running DSP chain: the instances and the steps of
\* ScenarioSpec, with the host calling physicslfo_perform64 again and again
\* and every call running its sample loop (sampleframes is above 0).
\* ------------------------------------------------------------------------

\* The sample step can be taken: ENABLED PerformSample(0, 0, 0, 0).
SampleEnabled ==
    /\ pc = "run"
    /\ LET r == SampleStep(x, lphase, 0, 0, 0, 0)
       IN  /\ r.phase <= MaxPhaseSteps * PhaseStep
           /\ r.phase % PhaseStep <= MaxCreep
           /\ r.x.bounce_count <= MaxContacts * Unit

\* Weak fairness of the host's call, and strong fairness of the sample step,
\* SF_vars(PerformSample(0, 0, 0, 0)), written out with SampleEnabled.
RecoverSpec ==
    /\ ScenarioInit
    /\ [][ScenarioNext]_vars
    /\ WF_vars(PerformBegin)
    /\ (<>[]~SampleEnabled \/ []<><<PerformSample(0, 0, 0, 0)>>_vars)

\* ------------------------------------------------------------------------
\* Properties
\* ------------------------------------------------------------------------

\* The phase the instance is at: the local of the perform routine inside a
\* block, the stored field between blocks.
EffPhase == IF pc = "run" THEN lphase ELSE x.phase

IsSample == last = <<"sample">>

IsTrigger == last = <<"bang", 0>>

\* The stop condition of type 4 at a phase, for the held shape and damping:
\* retain^k < 0.02 with retain = 0.5 + 0.4*damping, k = floor(phase*(2 + 6*shape)).
MultibounceAtRest(o, phase) ==
    LET retain == Dec(5, 10) + Mul(o.damping_float, Dec(4, 10))
        k      == ToLong(Mul(phase, 2 * Unit + Mul(o.physics_float, 6 * Unit)))
    IN  pow(retain, ToDouble(k)) < Dec(2, 100)

\* C1: every sample written by the drive loop lies in [0,1].
C1_OutputInUnitRange == IsSample => (0 <= x.last_value /\ x.last_value <= Unit)

\* C2: in looping mode the phase handed to the simulation lies in [0,1).
C2_LoopingPhaseWrapped ==
    (IsSample /\ x.looping_mode # 0) => (0 <= lphase /\ lphase < Unit)

\* C3: in envelope mode, between triggers, the phase never decreases, and
\* every sample adds exactly rate/sample_rate to it, whether envelope_active
\* is set or not.
C3_EnvelopePhaseAdvances ==
    [][(x.looping_mode = 0 /\ x'.looping_mode = 0 /\ ~IsTrigger')
         => /\ EffPhase' >= EffPhase
            /\ IsSample' =>
                 \E f \in FreqIn : lphase' = lphase + PhaseInc(ResolveFreq(x, f), x.sr)]_vars

C3_Witness ==
    /\ IsSample
    /\ x.looping_mode = 0
    /\ x.envelope_active = 0
    /\ x.phase >= Unit
    /\ lphase > x.phase

\* C4: a trigger leaves phase = 0 and the physics state reset, and changes
\* neither the looping flag nor a held scalar.
C4_TriggerResets ==
    [][IsTrigger'
         => /\ x'.phase = 0
            /\ x'.energy = Unit
            /\ x'.bounce_count = 0
            /\ x'.spin_phase = 0
            /\ x'.velocity = 0
            /\ x'.acceleration = 0
            /\ x'.looping_mode = x.looping_mode
            /\ x'.freq_float = x.freq_float
            /\ x'.type_float = x.type_float
            /\ x'.physics_float = x.physics_float
            /\ x'.damping_float = x.damping_float]_vars

C4_Witness ==
    /\ IsTrigger
    /\ x.looping_mode = 0
    /\ x.phase = 0
    /\ x.energy = Unit
    /\ x.bounce_count = 0
    /\ x.last_value # 0
    /\ x.type_float # 0
    /\ x.freq_float # Unit

\* C5: a trigger in envelope mode sets envelope_active; a trigger in looping
\* mode leaves it as it was.
C5_TriggerStartsEnvelope ==
    [][IsTrigger'
         => IF x.looping_mode = 0
            THEN x'.envelope_active = 1
            ELSE x'.envelope_active = x.envelope_active]_vars

C5_Witness ==
    /\ IsTrigger
    /\ x.looping_mode = 0
    /\ x.envelope_active = 1
    /\ x.last_value # 0

\* C6: a looping-mode sample whose advanced phase reaches 1.0 subtracts
\* exactly 1.0 and evaluates the simulation on the reset physics state; a
\* sample whose advanced phase stays below 1.0 evaluates it on the state as
\* it was.
C6_LoopingWrapResets ==
    [][(IsSample' /\ x.looping_mode # 0)
         => \E f \in FreqIn, t \in TypeIn, p \in PhysicsIn, d \in DampingIn :
              LET advanced == lphase + PhaseInc(ResolveFreq(x, f), x.sr)
                  wrap     == advanced >= Unit
                  phase    == IF wrap THEN advanced - Unit ELSE advanced
                  before   == IF wrap
                              THEN [x EXCEPT !.energy = Unit, !.bounce_count = 0,
                                             !.spin_phase = 0, !.velocity = 0,
                                             !.acceleration = 0]
                              ELSE x
                  sim      == Simulate(ResolveType(x, t), before, phase,
                                       ResolvePhysics(x, p), ResolveDamping(x, d))
              IN  /\ lphase' = phase
                  /\ x' = [sim.x EXCEPT !.last_value = sim.out]]_vars

C6_Witness ==
    /\ IsSample
    /\ x.looping_mode # 0
    /\ x.phase >= Unit
    /\ lphase = x.phase + PhaseStep - Unit
    /\ lphase < Unit
    /\ x.energy = Unit
    /\ x.bounce_count = 0

\* C7: in an envelope run envelope_active is cleared by the first sample
\* whose advanced phase is >= 1.0, without touching the phase and without a
\* reset of energy or bounce_count; it is set again only by a trigger.
C7_EnvelopeCompletes ==
    [][/\ (IsSample' /\ x.looping_mode = 0 /\ x.envelope_active # 0)
           => /\ x'.envelope_active = (IF lphase' >= Unit THEN 0 ELSE 1)
              /\ \E f \in FreqIn : lphase' = lphase + PhaseInc(ResolveFreq(x, f), x.sr)
              /\ x'.bounce_count >= x.bounce_count
              /\ x'.energy <= x.energy
              /\ \E t \in TypeIn, p \in PhysicsIn, d \in DampingIn :
                    LET before == [x EXCEPT !.envelope_active = x'.envelope_active]
                        sim    == Simulate(ResolveType(x, t), before, lphase',
                                           ResolvePhysics(x, p), ResolveDamping(x, d))
                    IN  x' = [sim.x EXCEPT !.last_value = sim.out]
       /\ (x.envelope_active = 0 /\ x'.envelope_active # 0)
           => (IsTrigger' /\ x.looping_mode = 0)]_vars

C7_Witness ==
    /\ IsSample
    /\ x.looping_mode = 0
    /\ x.envelope_active = 0
    /\ x.phase < Unit
    /\ lphase >= Unit
    /\ lphase < Unit + PhaseStep
    /\ x.bounce_count > 0
    /\ x.energy < Unit

\* C8: a phase message in envelope mode changes nothing.
C8_PhaseRejectedInEnvelope ==
    [][(last'[1] = "phase" /\ x.looping_mode = 0)
         => (x' = x /\ pc' = pc /\ lphase' = lphase)]_vars

C8_Witness ==
    /\ last[1] = "phase"
    /\ x.looping_mode = 0
    /\ x.phase > Unit
    /\ x.energy < Unit
    /\ x.envelope_active = 0

\* C9: a phase message with value v in looping mode sets phase to v clamped
\* to [0,1] and resets the physics state.
C9_PhaseSetClamps ==
    (last[1] = "phase" /\ x.looping_mode # 0)
      => /\ x.phase = (IF last[2] < 0 THEN 0 ELSE IF last[2] > Unit THEN Unit ELSE last[2])
         /\ x.energy = Unit
         /\ x.bounce_count = 0
         /\ x.spin_phase = 0
         /\ x.velocity = 0
         /\ x.acceleration = 0

C9_Witness ==
    /\ last = <<"phase", Dec(3, 2)>>
    /\ x.looping_mode # 0
    /\ x.phase = Unit
    /\ x.energy = Unit

\* C10 as stated: switching from envelope to looping mode resets the physics
\* state.
C10_SwitchToLoopingResets ==
    [][(last' = <<"looping", 1>> /\ x.looping_mode = 0)
         => (x'.energy = Unit /\ x'.bounce_count = 0 /\ x'.spin_phase = 0)]_vars

\* C10 amended: switching from envelope to looping mode keeps energy,
\* bounce_count and spin_phase as they were.
C10_SwitchToLoopingKeepsPhysics ==
    [][(last' = <<"looping", 1>> /\ x.looping_mode = 0)
         => /\ x'.looping_mode = 1
            /\ x'.energy = x.energy
            /\ x'.bounce_count = x.bounce_count
            /\ x'.spin_phase = x.spin_phase]_vars

C10_Witness ==
    /\ last = <<"looping", 1>>
    /\ x.looping_mode = 1
    /\ x.energy < Unit
    /\ x.bounce_count > 0

\* C11: a looping 0 message clears the looping flag and envelope_active and
\* changes nothing else; with no trigger, the samples that follow advance from
\* the phase as it was and evaluate the simulation on the physics state as it
\* was.
C11_LoopingOffKeepsState ==
    [][/\ last' = <<"looping", 0>>
           => /\ x' = [x EXCEPT !.looping_mode = 0, !.envelope_active = 0]
              /\ lphase' = lphase
              /\ pc' = pc
       /\ (IsSample' /\ x.looping_mode = 0 /\ x.envelope_active = 0)
           => \E f \in FreqIn, t \in TypeIn, p \in PhysicsIn, d \in DampingIn :
                LET sim == Simulate(ResolveType(x, t), x,
                                    lphase + PhaseInc(ResolveFreq(x, f), x.sr),
                                    ResolvePhysics(x, p), ResolveDamping(x, d))
                IN  /\ lphase' = lphase + PhaseInc(ResolveFreq(x, f), x.sr)
                    /\ x' = [sim.x EXCEPT !.last_value = sim.out]]_vars

C11_Witness ==
    /\ last = <<"looping", 0>>
    /\ x.looping_mode = 0
    /\ x.envelope_active = 0
    /\ x.phase > 0
    /\ x.phase < Unit
    /\ x.last_value > 0
    /\ x.last_value < Unit

\* C12: a looping 1 message sets the looping flag and changes nothing else:
\* the stored phase and envelope_active are as they were.
C12_LoopingOnOnlySetsFlag ==
    [][last' = <<"looping", 1>>
         => /\ x' = [x EXCEPT !.looping_mode = 1]
            /\ lphase' = lphase
            /\ pc' = pc]_vars

C12_Witness ==
    /\ last = <<"looping", 1>>
    /\ x.looping_mode = 1
    /\ x.envelope_active = 1
    /\ x.phase > 0
    /\ x.phase < Unit

\* C13: energy lies in [0,1] in every state; a trigger and a phase-set in
\* looping mode put it back to 1.0, a sample never leaves it above the value
\* it had (1.0 when the sample wraps the looping phase), and a ground contact
\* of type 0 or 2 leaves it at or below that value; no other step changes it.
C13_EnergyNeverIncreases ==
    /\ [](0 <= x.energy /\ x.energy <= Unit)
    /\ [][LET wrap   == /\ x.looping_mode # 0
                        /\ lphase + PhaseInc(ResolveFreq(x, 0), x.sr) >= Unit
              before == IF wrap THEN Unit ELSE x.energy
              count  == IF wrap THEN 0 ELSE x.bounce_count
          IN  IF IsSample'
              THEN /\ x'.energy <= before
                   /\ x'.energy >= 0
                   /\ (x'.energy < before) => (x'.bounce_count > count)
              ELSE IF IsTrigger' \/ (last'[1] = "phase" /\ x.looping_mode # 0)
                   THEN x'.energy = Unit
                   ELSE x'.energy = x.energy]_vars

C13_Witness ==
    /\ IsSample
    /\ x.type_float = 0
    /\ x.damping_float = Unit
    /\ x.bounce_count >= 2 * Unit
    /\ x.energy > 0
    /\ x.energy < Dec(1, 10)

\* C14: for type 4 in envelope mode with the held shape and damping, a sample
\* whose amplitude retain^k is below 0.02 is exactly 0.0, and once a sample is
\* at rest the next sample of the run is at rest too.
C14_MultibounceStaysAtRest ==
    [][(IsSample' /\ x.looping_mode = 0 /\ x.type_float = 4 * Unit)
         => /\ MultibounceAtRest(x, lphase') => x'.last_value = 0
            /\ MultibounceAtRest(x, lphase) => MultibounceAtRest(x, lphase')]_vars

C14_Witness ==
    /\ IsSample
    /\ x.looping_mode = 0
    /\ x.type_float = 4 * Unit
    /\ x.physics_float = Dec(5, 10)
    /\ x.damping_float = 0
    /\ lphase = 11 * PhaseStep
    /\ MultibounceAtRest(x, lphase)
    /\ MultibounceAtRest(x, lphase - PhaseStep)
    /\ x.last_value = 0

\* C15 (Scenario B): with type 4, shape 0.5 and damping 1.0, after a trigger
\* in envelope mode the output has reached exactly 0.0 on a sample whose
\* phase is below 1.0 and is 0.0 from then on; so the last sample of the
\* triggered run whose phase is below 1.0 is exactly 0.0.
C15_ScenarioBRestsBeforeOne ==
    (/\ IsSample
     /\ x.looping_mode = 0
     /\ x.envelope_active = 1
     /\ x.type_float = 4 * Unit
     /\ x.physics_float = Dec(5, 10)
     /\ x.damping_float = Unit
     /\ lphase < Unit
     /\ lphase + PhaseInc(ResolveFreq(x, 0), x.sr) >= Unit)
      => x.last_value = 0

\* The steps of the phase grid at which type 4 is at complete rest (the stop
\* condition holds and the function returns exactly 0.0), for an instance's
\* held shape and damping.
MultibounceRestSteps(o) ==
    {n \in 0..MaxPhaseSteps :
        /\ MultibounceAtRest(o, n * PhaseStep)
        /\ simulate_multibounce(o, n * PhaseStep, o.physics_float, o.damping_float).out = 0}

\* The first of them: where the output enters complete rest.
MultibounceRestStep(o) ==
    CHOOSE n \in MultibounceRestSteps(o) : \A m \in MultibounceRestSteps(o) : n <= m

\* C16: for type 4 at a fixed shape, a higher damping enters complete rest at
\* a phase that is no later.
C16_HigherDampingStopsSooner ==
    (IsSample /\ x.type_float = 4 * Unit)
      => \A d \in ScenarioDampings :
           LET higher == [x EXCEPT !.damping_float = d]
           IN  (/\ d >= x.damping_float
                /\ MultibounceRestSteps(higher) # {}
                /\ MultibounceRestSteps(x) # {})
                 => MultibounceRestStep(higher) <= MultibounceRestStep(x)

\* C20: on every sample each of the four inputs is the stream's value when
\* its is-driven flag is set and the held scalar otherwise, brought into its
\* domain: rate in [0,1000], type an integer of 0..5 by truncation, shape and
\* damping in [0,1]; the sample is computed from exactly these values.
C20_ResolvedInputsInDomain ==
    [][IsSample' =>
         \E f \in FreqIn, t \in TypeIn, p \in PhysicsIn, d \in DampingIn :
           LET Pick(flag, stream, held) == IF flag # 0 THEN stream ELSE held
               Into(v, lo, hi) == IF v < lo THEN lo ELSE IF v > hi THEN hi ELSE v
               rate    == Into(Pick(x.freq_has_signal, f, x.freq_float), 0, 1000 * Unit)
               type    == Into(Pick(x.type_has_signal, t, x.type_float), 0, 5 * Unit)
                            \div Unit
               shape   == Into(Pick(x.physics_has_signal, p, x.physics_float), 0, Unit)
               damping == Into(Pick(x.damping_has_signal, d, x.damping_float), 0, Unit)
               adv     == AdvancePhase(x, lphase, PhaseInc(rate, x.sr))
               sim     == Simulate(type, adv.x, adv.phase, shape, damping)
           IN  /\ 0 <= rate /\ rate <= 1000 * Unit
               /\ type \in 0..5
               /\ 0 <= shape /\ shape <= Unit
               /\ 0 <= damping /\ damping <= Unit
               /\ lphase' = adv.phase
               /\ x' = [sim.x EXCEPT !.last_value = sim.out]]_vars

C20_Witness ==
    /\ IsSample
    /\ x.freq_has_signal = 1
    /\ x.type_has_signal = 1
    /\ x.physics_has_signal = 1
    /\ x.damping_has_signal = 1
    /\ x.type_float = 5 * Unit
    /\ lphase > x.phase
    /\ x.last_value > Unit

\* The rate divides the sample rate: one period is a whole number of samples.
WholePeriod(o) ==
    /\ DoubleFrac(o.freq_float) = <<>>
    /\ DoubleToLong(o.freq_float) > 0
    /\ o.sr % DoubleToLong(o.freq_float) = 0

Period(o) == o.sr \div DoubleToLong(o.freq_float)

\* C17: in looping mode at a held rate with rate/sample_rate = 1/N, N whole,
\* each of the N samples of the period that follows the first period of a
\* new or newly triggered object equals the sample N places before it.
C17_SecondPeriodRepeatsFirst ==
    (/\ last[1] = "sample"
     /\ x.looping_mode # 0
     /\ WholePeriod(x)
     /\ Period(x) < last[2]
     /\ last[2] <= 2 * Period(x))
        => last[3][last[2]] = last[3][last[2] - Period(x)]

\* C18: type 0, shape 0.5, damping 0.1, 1 Hz held, 48000 samples per
\* second, looping, from a new (or newly triggered) object: among the
\* first 48000 samples the phase wraps on the 48000th and on no other, and
\* bounce_count is 0 right after that wrap.
ScenarioA(o) ==
    /\ o.sr = 48000
    /\ o.freq_float = Double1_0
    /\ o.freq_has_signal = 0
    /\ ResolveType(o, 0) = 0
    /\ ResolvePhysics(o, 0) = Dec(5, 10)
    /\ ResolveDamping(o, 0) = Dec(1, 10)
    /\ o.looping_mode # 0

C18_OneWrapInOneSecond ==
    [][(/\ last'[1] = "sample"
        /\ last'[2] <= 48000
        /\ ScenarioA(x))
          => /\ DoubleLess(lphase', lphase) <=> last'[2] = 48000
             /\ DoubleLess(lphase', lphase) => x'.bounce_count = 0 /\ x'.energy = Unit]_vars

C18_Witness ==
    /\ last = <<"sample", 48000>>
    /\ ScenarioA(x)
    /\ DoubleLess(lphase, x.sr_inv)
    /\ x.bounce_count = 0

\* A value brought into the closed interval [lo, hi].
InDomain(v, lo, hi) == IF v < lo THEN lo ELSE IF v > hi THEN hi ELSE v

\* The instance with the held scalar of one inlet replaced by the value v
\* brought into the inlet's domain (the type cut to a whole number).
WithHeld(o, inlet, v) ==
    CASE inlet = 0 -> [o EXCEPT !.freq_float = InDomain(v, 0, 1000 * Unit)]
      [] inlet = 1 -> [o EXCEPT !.type_float = (InDomain(v, 0, 5 * Unit) \div Unit) * Unit]
      [] inlet = 2 -> [o EXCEPT !.physics_float = InDomain(v, 0, Unit)]
      [] inlet = 3 -> [o EXCEPT !.damping_float = InDomain(v, 0, Unit)]

\* The instance with the held scalar of every stream-driven input replaced by h.
WithDrivenHeld(o, h) ==
    [o EXCEPT !.freq_float    = IF o.freq_has_signal # 0 THEN h ELSE @,
              !.type_float    = IF o.type_has_signal # 0 THEN h ELSE @,
              !.physics_float = IF o.physics_has_signal # 0 THEN h ELSE @,
              !.damping_float = IF o.damping_has_signal # 0 THEN h ELSE @]

HeldAlternatives == {-Unit, 0, 3 * Unit}

\* C21: a float or int message on one of the four inlets stores its value,
\* brought into the inlet's domain (the type cut to a whole number of 0..5),
\* in that inlet's held scalar and changes nothing else; and the sample the
\* loop computes while an input is stream-driven is the same whatever the
\* held scalar of that input is.
C21_ParameterSetChangesOneScalar ==
    [][/\ last'[1] = "float"
           => /\ x' = WithHeld(x, last'[2], last'[3])
              /\ pc' = pc
              /\ lphase' = lphase
       /\ last'[1] = "int"
           => /\ x' = WithHeld(x, last'[2], last'[3] * Unit)
              /\ pc' = pc
              /\ lphase' = lphase
       /\ IsSample'
           => \E f \in ControlFreqIn, t \in TypeIn, p \in PhysicsIn, d \in DampingIn :
                \A h \in HeldAlternatives :
                   LET r == SampleStep(WithDrivenHeld(x, h), lphase, f, t, p, d)
                   IN  /\ lphase' = r.phase
                       /\ x' = [r.x EXCEPT !.freq_float = x.freq_float,
                                           !.type_float = x.type_float,
                                           !.physics_float = x.physics_float,
                                           !.damping_float = x.damping_float]]_vars

C21_Witness ==
    /\ last = <<"float", 1, Dec(17, 10)>>
    /\ x.type_float = Unit
    /\ x.freq_float = 0
    /\ x.physics_float = Unit
    /\ x.damping_float = Unit
    /\ x.freq_has_signal = 1
    /\ x.last_value # 0

\* The number a creation argument carries.
AtomValue(a) == IF a.a_type = "A_LONG" THEN a.w * Unit ELSE a.w

\* C22: a new instance holds, for type, shape and damping, the argument
\* given in that position brought into [0,5], [0,1] and [0,1], and 0, 0.5 and
\* 0.1 where none is given; it is in looping mode with phase 0, energy 1.0,
\* bounce_count 0 and envelope_active clear.
C22_CreationArguments ==
    last[1] = "new"
      => LET argv == last[2]
         IN  /\ x.type_float = (IF Len(argv) >= 1
                                THEN InDomain(AtomValue(argv[1]), 0, 5 * Unit) ELSE 0)
             /\ x.physics_float = (IF Len(argv) >= 2
                                   THEN InDomain(AtomValue(argv[2]), 0, Unit) ELSE Dec(5, 10))
             /\ x.damping_float = (IF Len(argv) >= 3
                                   THEN InDomain(AtomValue(argv[3]), 0, Unit) ELSE Dec(1, 10))
             /\ x.looping_mode = 1
             /\ x.phase = 0
             /\ x.energy = Unit
             /\ x.bounce_count = 0
             /\ x.envelope_active = 0

C22_Witness ==
    /\ last[1] = "new"
    /\ Len(last[2]) = 3
    /\ last[2][1].w = 9
    /\ last[2][3].w = Dec(3, 2)
    /\ x.type_float = 5 * Unit
    /\ x.physics_float = Dec(25, 100)
    /\ x.damping_float = Unit

\* C23: whatever the type, the simulation leaves the phase as the loop
\* advanced it; and evaluated for the phase, shape and damping of any sample,
\* on the state that sample starts from, the functions of types 1, 3, 4 and
\* 5 leave energy, bounce_count and spin_phase as they were.
C23_SimulationFrame ==
    [][IsSample' =>
         LET adv     == AdvancePhase(x, lphase, PhaseInc(ResolveFreq(x, 0), x.sr))
             param   == ResolvePhysics(x, 0)
             damping == ResolveDamping(x, 0)
         IN  /\ lphase' = adv.phase
             /\ x'.phase = x.phase
             /\ \A ty \in 0..5 :
                   Simulate(ty, adv.x, adv.phase, param, damping).x.phase = x.phase
             /\ \A ty \in {1, 3, 4, 5} :
                   LET sim == Simulate(ty, adv.x, adv.phase, param, damping)
                   IN  /\ sim.x.energy = adv.x.energy
                       /\ sim.x.bounce_count = adv.x.bounce_count
                       /\ sim.x.spin_phase = adv.x.spin_phase
             /\ ResolveType(x, 0) \in {1, 3, 4, 5}
                   => /\ x'.energy = adv.x.energy
                      /\ x'.bounce_count = adv.x.bounce_count
                      /\ x'.spin_phase = adv.x.spin_phase]_vars

C23_Witness ==
    /\ IsSample
    /\ x.type_float = 4 * Unit
    /\ x.looping_mode = 0
    /\ lphase = 12 * PhaseStep
    /\ x.energy = Unit
    /\ x.bounce_count = 0
    /\ x.spin_phase = 0
    /\ x.last_value > 0

\* The five fields of the physics state hold their reset values.
PhysicsReset(o) ==
    /\ o.energy = Unit
    /\ o.bounce_count = 0
    /\ o.spin_phase = 0
    /\ o.velocity = 0
    /\ o.acceleration = 0

SamePhysics(o1, o2) ==
    /\ o1.energy = o2.energy
    /\ o1.bounce_count = o2.bounce_count
    /\ o1.spin_phase = o2.spin_phase
    /\ o1.velocity = o2.velocity
    /\ o1.acceleration = o2.acceleration

\* C24: a message leaves either all five fields of the physics state at
\* their reset values or all five as they were; a sample evaluates the
\* simulation on a state with all five reset or all five as they were, and
\* whenever it leaves energy back at 1.0 or bounce_count back at 0, then
\* spin_phase, velocity and acceleration are 0 as well.
C24_ResetIsAtomic ==
    [][/\ ~IsSample' => (PhysicsReset(x') \/ SamePhysics(x', x))
       /\ IsSample'
            => \E f \in FreqIn :
                 LET adv == AdvancePhase(x, lphase, PhaseInc(ResolveFreq(x, f), x.sr))
                 IN  /\ PhysicsReset(adv.x) \/ SamePhysics(adv.x, x)
                     /\ \E t \in TypeIn, p \in PhysicsIn, d \in DampingIn :
                          LET sim == Simulate(ResolveType(x, t), adv.x, adv.phase,
                                              ResolvePhysics(x, p), ResolveDamping(x, d))
                          IN  x' = [sim.x EXCEPT !.last_value = sim.out]
       /\ ((x'.energy = Unit /\ x.energy # Unit)
             \/ (x'.bounce_count = 0 /\ x.bounce_count # 0))
            => (x'.spin_phase = 0 /\ x'.velocity = 0 /\ x'.acceleration = 0)]_vars

C24_Witness ==
    /\ IsSample
    /\ x.looping_mode # 0
    /\ x.phase > Unit
    /\ lphase < Unit
    /\ x.type_float = 0
    /\ x.type_has_signal = 0
    /\ PhysicsReset(x)

\* The terms of type 5 at a phase, for the held shape and damping: the
\* approach to the equilibrium and the decay envelope of the beat.
WobbleBaseLevel(o, phase) ==
    Mul(Dec(5, 10),
        Unit - exp(Mul(-(Dec(15, 10) + Mul(o.damping_float, 2 * Unit)), phase)))

WobbleDecay(o, phase) == exp(Mul(Mul(-o.damping_float, phase), Dec(12, 10)))

\* C25 as stated: for type 5 the output is the equilibrium-approach term
\* alone whenever the beat amplitude 0.3*exp(-1.2*damping*t) is below 0.01.
C25_BeatSilentBelowAmplitude ==
    (/\ IsSample
     /\ x.type_float = 5 * Unit
     /\ Mul(Dec(3, 10), WobbleDecay(x, lphase)) < Dec(1, 100))
      => x.last_value = WobbleBaseLevel(x, lphase)

\* C25 amended: for type 5 the output is the equilibrium-approach term alone
\* whenever the decay envelope exp(-1.2*damping*t) of the beat is below 0.01
\* (the amplitude below 0.003); and in an envelope run, once the envelope is
\* below 0.01 it is below 0.01 on the next sample too.
C25_BeatSilentBelowDecay ==
    [][(IsSample' /\ x.type_float = 5 * Unit)
         => /\ WobbleDecay(x, lphase') < Dec(1, 100)
                 => x'.last_value = WobbleBaseLevel(x, lphase')
            /\ (x.looping_mode = 0 /\ WobbleDecay(x, lphase) < Dec(1, 100))
                 => WobbleDecay(x, lphase') < Dec(1, 100)]_vars

C25_Witness ==
    /\ IsSample
    /\ x.type_float = 5 * Unit
    /\ x.looping_mode = 0
    /\ x.damping_float = Unit
    /\ x.physics_float = Dec(5, 10)
    /\ lphase = 33 * PhaseStep
    /\ WobbleDecay(x, lphase) < Dec(1, 100)
    /\ WobbleDecay(x, lphase - PhaseStep) < Dec(1, 100)
    /\ x.last_value = WobbleBaseLevel(x, lphase)
    /\ simulate_wobble_NoCutoff(x, lphase, x.physics_float, x.damping_float).out
          # x.last_value

\* C26: with messages handled between blocks, whenever the instance is in
\* envelope mode with envelope_active set, the stored phase is below 1.0, and
\* so is the phase of the loop inside a block.
C26_ActiveEnvelopeBelowOne ==
    (x.looping_mode = 0 /\ x.envelope_active # 0)
      => /\ 0 <= x.phase
         /\ x.phase < Unit
         /\ pc = "run" => (0 <= lphase /\ lphase < Unit)

C26_Witness ==
    /\ last = <<"end">>
    /\ x.looping_mode = 0
    /\ x.envelope_active = 1
    /\ x.phase = 7 * PhaseStep

\* C27: a type 0 sample whose phase is in [0,1) and whose energy is above 0
\* is not a ground contact: it leaves energy and bounce_count alone and its
\* output is above 0.0; and in looping mode a type 0 sample that starts with
\* energy 1.0, bounce_count 0 and the phase in [0,1] ends with energy 1.0,
\* bounce_count 0 and the phase in [0,1), for every shape and damping.
C27_LoopingBounceNeverLands ==
    [][(IsSample' /\ ResolveType(x, 0) = 0)
         => LET adv == AdvancePhase(x, lphase, PhaseInc(ResolveFreq(x, 0), x.sr))
            IN  /\ (0 <= adv.phase /\ adv.phase < Unit /\ adv.x.energy > 0)
                     => /\ x'.energy = adv.x.energy
                        /\ x'.bounce_count = adv.x.bounce_count
                        /\ x'.last_value > 0
                /\ (/\ x.looping_mode # 0
                    /\ x.energy = Unit
                    /\ x.bounce_count = 0
                    /\ 0 <= lphase
                    /\ lphase <= Unit)
                     => /\ x'.energy = Unit
                        /\ x'.bounce_count = 0
                        /\ 0 <= lphase'
                        /\ lphase' < Unit]_vars

C27_Witness ==
    /\ IsSample
    /\ x.looping_mode # 0
    /\ x.type_float = 0
    /\ x.physics_float = Unit
    /\ x.damping_float = Unit
    /\ lphase = 7 * PhaseStep
    /\ x.phase = 0
    /\ x.energy = Unit
    /\ x.bounce_count = 0
    /\ x.last_value > 0

\* C28: a type 0 sample in envelope mode whose phase is 1.0 or more is a
\* ground contact: its output is exactly 0.0, bounce_count goes up by 1 and
\* energy is multiplied by 1 - 0.8*damping; and the phase of the sample after
\* it is again 1.0 or more, so the output stays 0.0.
C28_EnvelopeBounceLandsPastOne ==
    [][(IsSample' /\ x.looping_mode = 0 /\ ResolveType(x, 0) = 0 /\ lphase' >= Unit)
         => /\ x'.last_value = 0
            /\ x'.looping_mode = 0
            /\ AdvancePhase(x', lphase', PhaseInc(ResolveFreq(x', 0), x'.sr)).phase >= Unit
            /\ x'.bounce_count = x.bounce_count + Unit
            /\ x'.energy = Mul(x.energy, Unit - Mul(ResolveDamping(x, 0), Dec(8, 10)))]_vars

C28_Witness ==
    /\ IsSample
    /\ x.looping_mode = 0
    /\ x.type_float = 0
    /\ x.damping_float = Dec(25, 100)
    /\ lphase = 10 * PhaseStep
    /\ x.bounce_count = 3 * Unit
    /\ x.energy = Mul(Mul(Dec(8, 10), Dec(8, 10)), Dec(8, 10))
    /\ x.last_value = 0

\* C29: once looping mode is switched on with a stored phase of 1.0 or more
\* and a per-sample increment below 1, a looping sample whose advanced phase
\* is 1.0 or more subtracts 1.0 exactly once and is evaluated on the reset
\* physics state; the phase eventually is in [0,1) again (unless a further
\* message arrives first); and a looping sample that starts with the phase in
\* [0,1) ends with the phase in [0,1).
C29_Switched ==
    /\ last = <<"looping", 1>>
    /\ x.phase >= Unit
    /\ PhaseInc(ResolveFreq(x, 0), x.sr) < Unit

C29_Recovered ==
    \/ x.looping_mode # 0 /\ 0 <= EffPhase /\ EffPhase < Unit
    \/ last[1] \in {"float", "bang"}
    \/ last = <<"looping", 0>>

C29_LoopingRecoversFromLatePhase ==
    /\ [][(IsSample' /\ x.looping_mode # 0 /\ PhaseInc(ResolveFreq(x, 0), x.sr) < Unit)
            => LET inc == PhaseInc(ResolveFreq(x, 0), x.sr)
                   o2  == reset_physics_state(x)
                   sim == Simulate(ResolveType(x, 0), o2, lphase + inc - Unit,
                                   ResolvePhysics(x, 0), ResolveDamping(x, 0))
               IN  /\ (lphase + inc >= Unit)
                        => /\ lphase' = lphase + inc - Unit
                           /\ x' = [sim.x EXCEPT !.last_value = sim.out]
                   /\ (0 <= lphase /\ lphase < Unit)
                        => (0 <= lphase' /\ lphase' < Unit)]_vars
    /\ (C29_Switched ~> C29_Recovered)

C29_Witness ==
    /\ IsSample
    /\ x.looping_mode # 0
    /\ x.phase = 2 * Unit
    /\ lphase = 2 * PhaseStep
    /\ x.type_float = 4 * Unit
    /\ x.energy = Unit
    /\ x.bounce_count = 0

\* C19: a message delivered while the sample loop is inside a block takes
\* effect whole, as in a serial order of the message and the samples: after
\* a trigger the loop continues from phase 0 with the physics state reset
\* (and the envelope started in envelope mode), after a phase-set in looping
\* mode it continues from the phase that was set.
C19_MessageInBlockTakesEffectWhole ==
    [][/\ (pc = "run" /\ IsTrigger')
           => /\ EffPhase' = 0
              /\ x'.energy = Unit
              /\ x'.bounce_count = 0
              /\ x.looping_mode = 0 => x'.envelope_active = 1
       /\ (pc = "run" /\ last'[1] = "phase" /\ x.looping_mode # 0)
           => /\ EffPhase' = CLAMP(last'[2], 0, Unit)
              /\ x'.energy = Unit]_vars

====
